---- MODULE Spec2Model ----
(***************************************************************************)
(* Model of the skt-dl media acquisition pipeline:                         *)
(*   - VideoDownloader._select_format  (src/skt_dl/downloader.py)          *)
(*   - the quality string built by the command line (src/skt_dl/cli.py)    *)
(*   - ConcurrentDownloader            (src/skt_dl/concurrent.py)          *)
(*   - VideoDownloader.download_video / _download_stream                   *)
(*   - utils.retry_on_rate_limit around the extractor's request            *)
(*   - VideoDownloader.download_playlist and the progress sink             *)
(*                                                                         *)
(* Nine specifications share the module:                                   *)
(*   SpecSelect    format selection over bounded candidate lists           *)
(*   Spec          one ConcurrentDownloader.download_playlist call         *)
(*   SpecFetch     one VideoDownloader.download_video call                 *)
(*   SpecRetry     one extract_video_info call through the retry wrapper   *)
(*   SpecProgress  one collection download, concurrent or sequential,      *)
(*                 with the calls its progress sink receives               *)
(*   SpecLive      Spec's call under weak fairness of each thread          *)
(*   SpecCallers   the callers that choose max_workers (cli, web, main)    *)
(*   SpecShare     tasks of one call writing to their destination paths    *)
(*   SpecReuse     several calls on one ConcurrentDownloader instance      *)
(***************************************************************************)
EXTENDS Integers, Sequences, FiniteSets, TLC

VARIABLES
    \* ---- format selection ----
    formats,        \* video_info["formats"]: the candidate list
    quality,        \* the quality string handed to _select_format
    selected,       \* index into formats of the returned dict, 0 = None
    selStage,       \* "input" before the call, "selected" after it
    \* ---- ConcurrentDownloader ----
    videos,           \* playlist_info['videos'] as the extractor returns it
    max_workers,      \* self.max_workers
    mainPc,           \* position of the thread running download_playlist
    spawned,          \* loop counter of _start_workers
    enqueued,         \* loop counter of the enqueue loop
    running,          \* self.running
    workers,          \* self.workers
    wpc,              \* position of each worker thread in _worker
    wtask,            \* the task a worker holds
    task_queue,       \* self.task_queue: the queued tasks, FIFO
    unfinished_tasks, \* self.task_queue.unfinished_tasks
    result_queue,     \* self.result_queue
    downloaded_files, \* local list of download_playlist
    errors,           \* local list of download_playlist
    raised,           \* the exception download_playlist raised, or NoError
    \* ---- VideoDownloader.download_video ----
    fpc,              \* position of the thread running download_video
    title,            \* video_info["title"]
    filename,         \* the filename argument, NoFilename when not given
    has_callback,     \* whether progress_callback was given
    response,         \* the stream response: declared length and chunks
    disk,             \* the files on disk: path -> bytes held
    dirs,             \* the directories created by makedirs
    output_file,      \* local of download_video, NoPath before it is set
    content_length,   \* local of download_video and of _download_stream
    requests,         \* stream requests issued through session.get
    opens,            \* times the destination file was opened for writing
    chunk_index,      \* chunks taken from response.iter_content so far
    bytes_downloaded, \* local of _download_stream
    progress,         \* the calls made to progress_callback, in order
    cause,            \* the exception caught inside download_video
    ferror,           \* the exception download_video raised to its caller
    \* ---- retry_on_rate_limit around _make_api_request ----
    rpc,              \* position inside extract_video_info and the wrapper
    retries,          \* local of wrapper
    delay,            \* local of wrapper, in units of 1/JitterSteps second
    attempts,         \* what each call of the wrapped function did, in order
    sleeps,           \* the arguments of time.sleep, in order
    rvalue,           \* the value the wrapper returned, NoValue before
    rerror,           \* the exception the wrapper raised, NoError before
    xerror,           \* the exception extract_video_info raised, NoError before
    \* ---- VideoDownloader.download_playlist (sequential) ----
    svideos,          \* playlist_info["videos"]
    spc,              \* position of the thread running download_playlist
    si,               \* loop variable i of the for loop, 1-based
    sfiles,           \* local downloaded_files
    serror,           \* the exception download_playlist raised, or NoError
    \* ---- the progress sink of a collection download ----
    progress_callback, \* whether the caller handed in a progress sink
    sink,             \* the calls the sink has received
    \* ---- the call sites that construct a ConcurrentDownloader ----
    site,             \* "cli", "web" or "main"
    requested,        \* the max_workers value the user asked for
    cstage,           \* "input" before the constructor call, "constructed" after
    \* ---- the destination files of the tasks of one concurrent download ----
    ptasks,           \* the tasks: the title of the video and how its download ends
    pool,             \* self.max_workers
    tpc,              \* position of the download_video call of each task
    toffset,          \* bytes each task has written through its file handle
    pdisk,            \* the files on disk: path -> bytes held
    psuccess,         \* the paths recorded as successes, in order
    tops,             \* the file operations each task has performed
    \* ---- several download_playlist calls on one ConcurrentDownloader ----
    cpc,              \* position of each call of download_playlist
    citems,           \* total_videos of each call
    cenq,             \* loop counter of the enqueue loop of each call
    cfiles,           \* local downloaded_files of each call
    cerrs,            \* local errors of each call
    iqueue,           \* self.task_queue
    iunfinished,      \* self.task_queue.unfinished_tasks
    iresults,         \* self.result_queue
    irunning,         \* self.running
    iworkers,         \* self.workers
    thr               \* the worker threads: position, task held, starting call

selVars == <<formats, quality, selected, selStage>>

concVars == <<videos, max_workers, mainPc, spawned, enqueued, running, workers,
              wpc, wtask, task_queue, unfinished_tasks, result_queue,
              downloaded_files, errors, raised>>

fetchVars == <<fpc, title, filename, has_callback, response, disk, dirs,
               output_file, content_length, requests, opens, chunk_index,
               bytes_downloaded, progress, cause, ferror>>

retryVars == <<rpc, retries, delay, attempts, sleeps, rvalue, rerror, xerror>>

seqVars == <<svideos, spc, si, sfiles, serror>>

sinkVars == <<progress_callback, sink>>

callerVars == <<site, requested, cstage>>

shareVars == <<ptasks, pool, tpc, toffset, pdisk, psuccess, tops>>

reuseVars == <<cpc, citems, cenq, cfiles, cerrs, iqueue, iunfinished, iresults,
               irunning, iworkers, thr>>

auxVars == <<callerVars, shareVars, reuseVars>>

(***************************************************************************)
(* Bounds                                                                  *)
(***************************************************************************)
MaxFormats == 3
MaxVideos  == 3
MaxWorkers == 4
MaxChunks  == 2
MaxChunkLen == 2
JitterSteps == 2
MaxSinkVideos  == 2
MaxSinkWorkers == 2
MaxLiveVideos  == 2
MaxLiveWorkers == 2
MaxRequested   == 10
MaxShareTasks  == 2
MaxSharePool   == 2
MaxCalls       == 2
MaxReuseItems  == 2
MaxReusePool   == 1

(***************************************************************************)
(* Strings are sequences of one-character strings, so that lower(),        *)
(* endswith(), slicing and int() are computed rather than assumed.         *)
(***************************************************************************)
S_best      == <<"b", "e", "s", "t">>
S_worst     == <<"w", "o", "r", "s", "t">>
S_audio     == <<"a", "u", "d", "i", "o">>
S_video     == <<"v", "i", "d", "e", "o">>
S_mp4       == <<"m", "p", "4">>
S_480P      == <<"4", "8", "0", "P">>
S_720p      == <<"7", "2", "0", "p">>
S_1080p     == <<"1", "0", "8", "0", "p">>
S_0p        == <<"0", "p">>
S_minus5p   == <<"-", "5", "p">>
S_p         == <<"p">>

\* str.lower() on one character
LowerChar(c) ==
    CASE c = "P" -> "p"
      [] c = "B" -> "b"
      [] c = "W" -> "w"
      [] c = "A" -> "a"
      [] c = "V" -> "v"
      [] OTHER   -> c

\* str.lower()
Lower(s) == [i \in 1..Len(s) |-> LowerChar(s[i])]

\* str.endswith(suffix) for a one-character suffix
EndsWith(s, c) == Len(s) > 0 /\ s[Len(s)] = c

\* s[:-1]
DropLast(s) == IF Len(s) = 0 THEN <<>> ELSE SubSeq(s, 1, Len(s) - 1)

Digits == {"0", "1", "2", "3", "4", "5", "6", "7", "8", "9"}

DigitVal(c) ==
    CASE c = "0" -> 0 [] c = "1" -> 1 [] c = "2" -> 2 [] c = "3" -> 3
      [] c = "4" -> 4 [] c = "5" -> 5 [] c = "6" -> 6 [] c = "7" -> 7
      [] c = "8" -> 8 [] c = "9" -> 9

RECURSIVE DigitsVal(_)
DigitsVal(s) ==
    IF Len(s) = 0 THEN 0
    ELSE 10 * DigitsVal(DropLast(s)) + DigitVal(s[Len(s)])

\* int(s): an optional sign followed by one or more decimal digits;
\* anything else raises ValueError (ok = FALSE).
ParseInt(s) ==
    LET signed == Len(s) > 0 /\ s[1] \in {"+", "-"}
        body   == IF signed THEN SubSeq(s, 2, Len(s)) ELSE s
        ok     == Len(body) > 0 /\ \A i \in 1..Len(body) : body[i] \in Digits
    IN  [ok  |-> ok,
         val |-> IF ~ok THEN 0
                 ELSE IF signed /\ s[1] = "-" THEN 0 - DigitsVal(body)
                 ELSE DigitsVal(body)]

(***************************************************************************)
(* sorted(seq, key=..., reverse=...): Python's sort is stable, also with   *)
(* reverse=True.  The elements sorted are indices into the candidate list  *)
(* (object identity); key maps an index to its key tuple.                  *)
(***************************************************************************)
TupleLess(a, b) ==
    \E i \in 1..Len(a) : a[i] < b[i] /\ \A j \in 1..(i - 1) : a[j] = b[j]

\* a sort that ignores reverse=True
GoesBeforeIgnoringReverse(x, y, key, reverse) ==
    TupleLess(key[x], key[y])

\* x is placed strictly before y
GoesBefore(x, y, key, reverse) ==
    IF reverse THEN TupleLess(key[y], key[x]) ELSE TupleLess(key[x], key[y])

InsertSorted(s, x, key, reverse) ==
    LET p == Cardinality({j \in 1..Len(s) : ~GoesBefore(x, s[j], key, reverse)})
    IN  SubSeq(s, 1, p) \o <<x>> \o SubSeq(s, p + 1, Len(s))

RECURSIVE Sorted(_, _, _)
Sorted(s, key, reverse) ==
    IF Len(s) = 0 THEN <<>>
    ELSE InsertSorted(Sorted(DropLast(s), key, reverse), s[Len(s)], key, reverse)

\* [i for i in range(len(fs)) if P(fs[i])], as indices in list order
Indices(fs) == [i \in 1..Len(fs) |-> i]

(***************************************************************************)
(* VideoDownloader._select_format                                          *)
(***************************************************************************)
\* a key that drops the bitrate tie-break
KeyHeightAlone(fs) == [i \in 1..Len(fs) |-> <<fs[i].height, 0>>]

\* a key on the height where the bitrate was meant
KeyBitrateAsHeight(fs) == [i \in 1..Len(fs) |-> <<fs[i].height>>]

KeyHeightBitrate(fs) == [i \in 1..Len(fs) |-> <<fs[i].height, fs[i].video_bitrate>>]
KeyHeight(fs)        == [i \in 1..Len(fs) |-> <<fs[i].height>>]
KeyBitrate(fs)       == [i \in 1..Len(fs) |-> <<fs[i].video_bitrate>>]

CombinedFormats(fs) ==
    SelectSeq(Indices(fs), LAMBDA i : fs[i].is_audio /\ fs[i].is_video)

\* a fallback that also admits audio-only descriptors
VideoFormatsAnyMedia(fs) ==
    SelectSeq(Indices(fs), LAMBDA i : fs[i].is_video \/ fs[i].is_audio)

VideoFormats(fs) ==
    SelectSeq(Indices(fs), LAMBDA i : fs[i].is_video)

\* quality_height of the else branch
QualityHeight(q) ==
    IF EndsWith(Lower(q), "p")
    THEN LET r == ParseInt(DropLast(q)) IN IF r.ok THEN r.val ELSE 0
    ELSE 0

First(s) == IF Len(s) = 0 THEN 0 ELSE s[1]

\* [fmt for fmt in combined_formats if fmt.get("height", 0) == quality_height]
MatchingFormats(fs, combined, qh) ==
    SelectSeq(combined, LAMBDA i : fs[i].height = qh)

\* [fmt for fmt in combined_formats if fmt.get("height", 0) < quality_height]
LowerFormats(fs, combined, qh) ==
    SelectSeq(combined, LAMBDA i : fs[i].height < qh)

SelectFormat(fs, q) ==
    LET combined == CombinedFormats(fs)
        video    == VideoFormats(fs)
        qh       == QualityHeight(q)
        matching == MatchingFormats(fs, combined, qh)
        lower    == LowerFormats(fs, combined, qh)
    IN  IF Len(combined) = 0
        THEN IF Len(video) > 0
             THEN Sorted(video, KeyHeight(fs), TRUE)[1]
             ELSE 0
        ELSE IF q = S_best
        THEN First(Sorted(combined, KeyHeightBitrate(fs), TRUE))
        ELSE IF q = S_worst
        THEN First(Sorted(combined, KeyHeightBitrate(fs), FALSE))
        ELSE IF qh > 0 /\ Len(matching) > 0
        THEN Sorted(matching, KeyBitrate(fs), TRUE)[1]
        ELSE IF Len(lower) > 0
        THEN Sorted(lower, KeyHeight(fs), TRUE)[1]
        ELSE First(Sorted(combined, KeyHeightBitrate(fs), TRUE))

(***************************************************************************)
(* cli.download_video: the quality string built from the arguments         *)
(***************************************************************************)
NoFormatArg == <<>>

CliQuality(argQuality, audio_only, video_only, argFormat) ==
    LET q == IF audio_only THEN S_audio
             ELSE IF video_only THEN S_video
             ELSE argQuality
    IN  IF argFormat # NoFormatArg THEN q \o <<":">> \o argFormat ELSE q

(***************************************************************************)
(* Inputs of the selection specification                                   *)
(***************************************************************************)
Fmt(t, a, v, h, vb, ab, c) ==
    [itag |-> t, is_audio |-> a, is_video |-> v, height |-> h,
     video_bitrate |-> vb, audio_bitrate |-> ab, container |-> c]

\* bitrates in kbit/s
FormatPool ==
    { Fmt(18,  TRUE,  TRUE,  360,  500,  96,  "mp4"),
      Fmt(22,  TRUE,  TRUE,  720,  2000, 192, "mp4"),
      Fmt(45,  TRUE,  TRUE,  720,  1500, 192, "webm"),
      Fmt(37,  TRUE,  TRUE,  1080, 3000, 192, "mp4"),
      Fmt(135, FALSE, TRUE,  480,  1000, 0,   "mp4"),
      Fmt(137, FALSE, TRUE,  1080, 4500, 0,   "mp4"),
      Fmt(140, TRUE,  FALSE, 0,    0,    128, "m4a"),
      Fmt(251, TRUE,  FALSE, 0,    0,    160, "webm"),
      Fmt(999, FALSE, FALSE, 0,    0,    0,   "mp4") }

\* candidate lists: identities are unique within one item's list
FormatLists ==
    UNION { { s \in [1..n -> FormatPool] :
                \A i, j \in 1..n : i # j => s[i].itag # s[j].itag }
            : n \in 0..MaxFormats }

QualityArgs    == {S_best, S_worst, S_480P, S_720p, S_1080p}
DirectQuality  == QualityArgs \cup {S_audio, S_video, S_0p, S_minus5p, S_p}
FormatArgs     == {NoFormatArg, S_mp4}

SelInit ==
    /\ formats \in FormatLists
    /\ quality = <<>>
    /\ selected = 0
    /\ selStage = "input"

\* VideoDownloader.download_video called with a quality string: the
\* selection step
DownloadVideoSelect ==
    /\ selStage = "input"
    /\ \E q \in DirectQuality :
          /\ quality' = q
          /\ selected' = SelectFormat(formats, q)
    /\ selStage' = "selected"
    /\ UNCHANGED formats

\* cli.download_video: quality derived from the arguments, then
\* download_video's selection step
CliDownloadVideo ==
    /\ selStage = "input"
    /\ \E aq \in QualityArgs, ao \in BOOLEAN, vo \in BOOLEAN, af \in FormatArgs :
          LET q == CliQuality(aq, ao, vo, af) IN
          /\ quality' = q
          /\ selected' = SelectFormat(formats, q)
    /\ selStage' = "selected"
    /\ UNCHANGED formats

\* no selection in progress
SelIdle ==
    /\ formats = <<>>
    /\ quality = <<>>
    /\ selected = 0
    /\ selStage = "idle"

(***************************************************************************)
(* ConcurrentDownloader (src/skt_dl/concurrent.py)                         *)
(***************************************************************************)
WorkerIds == 1..MaxWorkers

NoError == "NoError"
NoTask  == [type |-> "none", url |-> 0, index |-> 0, total |-> 0]

\* The exception the single-item flow of item i raises when it fails:
\* the kinds download_video can raise, spread over the positions.
ErrorKind(i) ==
    CASE i % 4 = 1 -> "VideoUnavailableError"
      [] i % 4 = 2 -> "DownloadError"
      [] i % 4 = 3 -> "RateLimitError"
      [] OTHER     -> "ExtractionError"

\* playlists: each item has a locator and the fixed result of its
\* single-item flow ("ok" or the exception raised)
Playlists ==
    UNION { { s \in [1..n -> [url : 1..n, result : {"ok"} \cup {ErrorKind(i) : i \in 1..n}]] :
                \A i \in 1..n : s[i].url = i /\ s[i].result \in {"ok", ErrorKind(i)} }
            : n \in 0..MaxVideos }

\* the task dict built for videos[i] (i is 1-based here, enumerate is 0-based)
MakeTask(i, total) ==
    [type |-> "video", url |-> videos[i].url, index |-> i, total |-> total]

\* the path download_video returns for a locator
OutputFile(url) == <<"output_path", url>>

\* result dicts put on the result queue
SuccessResult(task) ==
    [success |-> TRUE, url |-> task.url, output_file |-> OutputFile(task.url),
     error |-> NoError, index |-> task.index]

FailureResult(task, e) ==
    [success |-> FALSE, url |-> task.url, output_file |-> <<>>,
     error |-> e, index |-> task.index]

\* the entry appended to errors for a failure result
ErrorEntry(result) ==
    [url |-> result.url, error |-> result.error, index |-> result.index]

\* ConcurrentDownloader.__init__
ConcInit ==
    /\ videos \in Playlists
    /\ max_workers \in 1..MaxWorkers
    /\ mainPc = "extract"
    /\ spawned = 0
    /\ enqueued = 0
    /\ running = FALSE
    /\ workers = <<>>
    /\ wpc = [w \in WorkerIds |-> "unstarted"]
    /\ wtask = [w \in WorkerIds |-> NoTask]
    /\ task_queue = <<>>
    /\ unfinished_tasks = 0
    /\ result_queue = <<>>
    /\ downloaded_files = <<>>
    /\ errors = <<>>
    /\ raised = NoError

\* no collection download in progress
ConcIdle ==
    /\ videos = <<>>
    /\ max_workers = 1
    /\ mainPc = "idle"
    /\ spawned = 0
    /\ enqueued = 0
    /\ running = FALSE
    /\ workers = <<>>
    /\ wpc = [w \in WorkerIds |-> "unstarted"]
    /\ wtask = [w \in WorkerIds |-> NoTask]
    /\ task_queue = <<>>
    /\ unfinished_tasks = 0
    /\ result_queue = <<>>
    /\ downloaded_files = <<>>
    /\ errors = <<>>
    /\ raised = NoError

\* a download_playlist without the emptiness test of lines 67-68
ExtractPlaylistNoEmptinessTest ==
    /\ mainPc = "extract"
    /\ \E fetch \in {"ok", "ExtractionError"} :
          IF fetch # "ok"
          THEN /\ mainPc' = "except"
               /\ raised' = fetch
          ELSE /\ mainPc' = "start_workers"
               /\ raised' = raised
    /\ UNCHANGED <<videos, max_workers, spawned, enqueued, running, workers,
                   wpc, wtask, task_queue, unfinished_tasks, result_queue,
                   downloaded_files, errors>>

\* download_playlist, lines 62-73: the metadata fetch, the emptiness test
\* and os.makedirs.  The extractor either returns the item list or raises.
ExtractPlaylist ==
    /\ mainPc = "extract"
    /\ \E fetch \in {"ok", "ExtractionError"} :
          IF fetch # "ok"
          THEN /\ mainPc' = "except"
               /\ raised' = fetch
          ELSE IF Len(videos) = 0
          THEN /\ mainPc' = "except"
               /\ raised' = "PlaylistUnavailableError"
          ELSE /\ mainPc' = "start_workers"
               /\ raised' = raised
    /\ UNCHANGED <<videos, max_workers, spawned, enqueued, running, workers,
                   wpc, wtask, task_queue, unfinished_tasks, result_queue,
                   downloaded_files, errors>>

\* _start_workers, lines 210-212
StartWorkers ==
    /\ mainPc = "start_workers"
    /\ running' = TRUE
    /\ workers' = <<>>
    /\ spawned' = 0
    /\ mainPc' = "spawn"
    /\ UNCHANGED <<videos, max_workers, enqueued, wpc, wtask, task_queue,
                   unfinished_tasks, result_queue, downloaded_files, errors,
                   raised>>

\* a loop that starts one worker more than max_workers
SpawnWorkerOneMore ==
    /\ mainPc = "spawn"
    /\ IF spawned <= max_workers /\ spawned < MaxWorkers
       THEN /\ wpc' = [wpc EXCEPT ![spawned + 1] = "loop"]
            /\ workers' = Append(workers, spawned + 1)
            /\ spawned' = spawned + 1
            /\ UNCHANGED mainPc
       ELSE /\ mainPc' = "enqueue"
            /\ UNCHANGED <<wpc, workers, spawned>>
    /\ UNCHANGED <<videos, max_workers, enqueued, running, wtask, task_queue,
                   unfinished_tasks, result_queue, downloaded_files, errors,
                   raised>>

\* _start_workers, lines 214-217: one iteration of the loop, or its end
SpawnWorker ==
    /\ mainPc = "spawn"
    /\ IF spawned < max_workers
       THEN /\ wpc' = [wpc EXCEPT ![spawned + 1] = "loop"]
            /\ workers' = Append(workers, spawned + 1)
            /\ spawned' = spawned + 1
            /\ UNCHANGED mainPc
       ELSE /\ mainPc' = "enqueue"
            /\ UNCHANGED <<wpc, workers, spawned>>
    /\ UNCHANGED <<videos, max_workers, enqueued, running, wtask, task_queue,
                   unfinished_tasks, result_queue, downloaded_files, errors,
                   raised>>

\* download_playlist, lines 79-96: one iteration of the enqueue loop
\* (Queue.put appends the task and counts it as unfinished), or its end
EnqueueTask ==
    /\ mainPc = "enqueue"
    /\ IF enqueued < Len(videos)
       THEN /\ task_queue' = Append(task_queue, MakeTask(enqueued + 1, Len(videos)))
            /\ unfinished_tasks' = unfinished_tasks + 1
            /\ enqueued' = enqueued + 1
            /\ UNCHANGED mainPc
       ELSE /\ mainPc' = "join"
            /\ UNCHANGED <<task_queue, unfinished_tasks, enqueued>>
    /\ UNCHANGED <<videos, max_workers, spawned, running, workers, wpc, wtask,
                   result_queue, downloaded_files, errors, raised>>

\* a join that only waits for the queue to be empty
JoinBarrierQueueEmpty == Len(task_queue) = 0

\* Queue.join returns once every task put has been marked done
JoinBarrier == unfinished_tasks = 0

\* download_playlist, line 99
JoinTaskQueue ==
    /\ mainPc = "join"
    /\ JoinBarrier
    /\ mainPc' = "stop_workers"
    /\ UNCHANGED <<videos, max_workers, spawned, enqueued, running, workers,
                   wpc, wtask, task_queue, unfinished_tasks, result_queue,
                   downloaded_files, errors, raised>>

\* _stop_workers, lines 224-231: the flag is cleared, each live worker is
\* joined for at most two seconds, the list is reset
StopWorkers ==
    /\ mainPc = "stop_workers"
    /\ running' = FALSE
    /\ workers' = <<>>
    /\ mainPc' = "aggregate"
    /\ UNCHANGED <<videos, max_workers, spawned, enqueued, wpc, wtask,
                   task_queue, unfinished_tasks, result_queue,
                   downloaded_files, errors, raised>>

\* download_playlist, lines 108-118: one iteration of the drain loop
AggregateResult ==
    /\ mainPc = "aggregate"
    /\ Len(result_queue) > 0
    /\ LET result == Head(result_queue) IN
          /\ result_queue' = Tail(result_queue)
          /\ IF result.success
             THEN /\ downloaded_files' = Append(downloaded_files, result.output_file)
                  /\ UNCHANGED errors
             ELSE /\ errors' = Append(errors, ErrorEntry(result))
                  /\ UNCHANGED downloaded_files
    /\ UNCHANGED <<videos, max_workers, mainPc, spawned, enqueued, running,
                   workers, wpc, wtask, task_queue, unfinished_tasks, raised>>

\* a return that raises when nothing was downloaded
ReturnOrRaiseWhenNoneDownloaded ==
    /\ mainPc = "aggregate"
    /\ Len(result_queue) = 0
    /\ IF Len(downloaded_files) = 0
       THEN mainPc' = "raised" /\ raised' = "DownloadError"
       ELSE mainPc' = "returned" /\ raised' = raised
    /\ UNCHANGED <<videos, max_workers, spawned, enqueued, running, workers,
                   wpc, wtask, task_queue, unfinished_tasks, result_queue,
                   downloaded_files, errors>>

\* download_playlist, lines 108 and 122: the queue is empty, the pair is
\* returned
ReturnResults ==
    /\ mainPc = "aggregate"
    /\ Len(result_queue) = 0
    /\ mainPc' = "returned"
    /\ UNCHANGED <<videos, max_workers, spawned, enqueued, running, workers,
                   wpc, wtask, task_queue, unfinished_tasks, result_queue,
                   downloaded_files, errors, raised>>

\* download_playlist, lines 124-127: _stop_workers, then re-raise
ExceptReraise ==
    /\ mainPc = "except"
    /\ running' = FALSE
    /\ workers' = <<>>
    /\ mainPc' = "raised"
    /\ UNCHANGED <<videos, max_workers, spawned, enqueued, wpc, wtask,
                   task_queue, unfinished_tasks, result_queue,
                   downloaded_files, errors, raised>>

\* _worker, line 133: the loop test
WorkerCheckRunning(w) ==
    /\ wpc[w] = "loop"
    /\ wpc' = [wpc EXCEPT ![w] = IF running THEN "get" ELSE "exited"]
    /\ UNCHANGED <<videos, max_workers, mainPc, spawned, enqueued, running,
                   workers, wtask, task_queue, unfinished_tasks, result_queue,
                   downloaded_files, errors, raised>>

\* a worker that leaves its loop when it finds the queue empty
WorkerGetExitOnEmpty(w) ==
    /\ wpc[w] = "get"
    /\ IF Len(task_queue) > 0
       THEN /\ wtask' = [wtask EXCEPT ![w] = Head(task_queue)]
            /\ task_queue' = Tail(task_queue)
            /\ wpc' = [wpc EXCEPT ![w] = "download"]
       ELSE /\ wpc' = [wpc EXCEPT ![w] = "exited"]
            /\ UNCHANGED <<wtask, task_queue>>
    /\ UNCHANGED <<videos, max_workers, mainPc, spawned, enqueued, running,
                   workers, unfinished_tasks, result_queue, downloaded_files,
                   errors, raised>>

\* _worker, lines 137-140: task_queue.get(timeout=1.0) hands over the task
\* at the head of the queue, or raises queue.Empty and the loop continues
WorkerGet(w) ==
    /\ wpc[w] = "get"
    /\ IF Len(task_queue) > 0
       THEN /\ wtask' = [wtask EXCEPT ![w] = Head(task_queue)]
            /\ task_queue' = Tail(task_queue)
            /\ wpc' = [wpc EXCEPT ![w] = "download"]
       ELSE /\ wpc' = [wpc EXCEPT ![w] = "loop"]
            /\ UNCHANGED <<wtask, task_queue>>
    /\ UNCHANGED <<videos, max_workers, mainPc, spawned, enqueued, running,
                   workers, unfinished_tasks, result_queue, downloaded_files,
                   errors, raised>>

\* an index taken from the number of results so far, not from the task
RecordIndexByCompletion(task) == Len(result_queue) + 1

\* the index written into a result dict
RecordIndex(task) == task.index

\* the result dict with the index as the worker reads it
Recorded(result, task) == [result EXCEPT !.index = RecordIndex(task)]

\* a worker without the except clause: the exception ends the thread
WorkerDownloadUnguarded(w) ==
    /\ wpc[w] = "download"
    /\ LET task == wtask[w]
           res  == videos[task.url].result
       IN  IF res = "ok"
           THEN /\ result_queue' = Append(result_queue, Recorded(SuccessResult(task), task))
                /\ wpc' = [wpc EXCEPT ![w] = "task_done"]
           ELSE /\ result_queue' = result_queue
                /\ wpc' = [wpc EXCEPT ![w] = "exited"]
    /\ UNCHANGED <<videos, max_workers, mainPc, spawned, enqueued, running,
                   workers, wtask, task_queue, unfinished_tasks,
                   downloaded_files, errors, raised>>

\* _worker, lines 143-198: download_video runs to its result; a success
\* dict is put on the result queue, or the except clause puts a failure dict
WorkerDownload(w) ==
    /\ wpc[w] = "download"
    /\ LET task == wtask[w]
           res  == videos[task.url].result
       IN  IF res = "ok"
           THEN result_queue' = Append(result_queue, Recorded(SuccessResult(task), task))
           ELSE result_queue' = Append(result_queue, Recorded(FailureResult(task, res), task))
    /\ wpc' = [wpc EXCEPT ![w] = "task_done"]
    /\ UNCHANGED <<videos, max_workers, mainPc, spawned, enqueued, running,
                   workers, wtask, task_queue, unfinished_tasks,
                   downloaded_files, errors, raised>>

\* a worker that goes back to its loop without task_done
WorkerTaskDoneForgotten(w) ==
    /\ wpc[w] = "task_done"
    /\ wtask' = [wtask EXCEPT ![w] = NoTask]
    /\ wpc' = [wpc EXCEPT ![w] = "loop"]
    /\ UNCHANGED <<videos, max_workers, mainPc, spawned, enqueued, running,
                   workers, task_queue, unfinished_tasks, result_queue,
                   downloaded_files, errors, raised>>

\* _worker, line 201: task_done, then back to the loop test
WorkerTaskDone(w) ==
    /\ wpc[w] = "task_done"
    /\ unfinished_tasks' = unfinished_tasks - 1
    /\ wtask' = [wtask EXCEPT ![w] = NoTask]
    /\ wpc' = [wpc EXCEPT ![w] = "loop"]
    /\ UNCHANGED <<videos, max_workers, mainPc, spawned, enqueued, running,
                   workers, task_queue, result_queue, downloaded_files,
                   errors, raised>>

(***************************************************************************)
(* utils.safe_filename                                                     *)
(***************************************************************************)
FilenameLimit == 100

\* the characters removed by the first re.sub
ForbiddenChars == {"\\", "/", "*", "?", ":", "\"", "<", ">", "|"}

\* the characters matched by \s
Whitespace == {" ", "\t", "\n"}

RemoveForbidden(s) == SelectSeq(s, LAMBDA c : c \notin ForbiddenChars)

\* re.sub(r'\s+', ' ', s)
RECURSIVE CollapseSpaces(_)
CollapseSpaces(s) ==
    IF Len(s) = 0 THEN <<>>
    ELSE LET rest == CollapseSpaces(DropLast(s))
             c    == s[Len(s)]
         IN  IF c \in Whitespace
             THEN IF Len(s) > 1 /\ s[Len(s) - 1] \in Whitespace
                  THEN rest
                  ELSE Append(rest, " ")
             ELSE Append(rest, c)

\* str.strip() of a string whose whitespace runs are already single spaces
Strip(s) ==
    LET from == IF Len(s) > 0 /\ s[1] \in Whitespace THEN 2 ELSE 1
        to   == IF Len(s) > 0 /\ s[Len(s)] \in Whitespace THEN Len(s) - 1 ELSE Len(s)
    IN  SubSeq(s, from, to)

SafeFilename(t) ==
    LET safe_title == Strip(CollapseSpaces(RemoveForbidden(t)))
    IN  SubSeq(safe_title, 1, IF Len(safe_title) < FilenameLimit
                               THEN Len(safe_title) ELSE FilenameLimit)

(***************************************************************************)
(* VideoDownloader.download_video and _download_stream                     *)
(***************************************************************************)
NoFilename == <<>>
NoPath     == [dir |-> "", name |-> <<>>, ext |-> ""]
OutputDir  == "output_path"

\* Python's None for a content length
NoneLength == -1

\* os.path.join(output_path, f"{filename}.{container}")
JoinPath(dir, name, container) == [dir |-> dir, name |-> name, ext |-> container]

FileExists(d, path) == path \in DOMAIN d

\* open(path, 'wb'): the file is created, or truncated when it exists
OpenForWriting(d, path) ==
    [q \in DOMAIN d \cup {path} |-> IF q = path THEN 0 ELSE d[q]]

\* f.write(chunk)
WriteBytes(d, path, n) == [d EXCEPT ![path] = d[path] + n]

\* a cleanup that leaves the file in place
KeepFile(d, path) == d

\* if os.path.exists(output_file): os.remove(output_file)
RemoveIfExists(d, path) ==
    IF FileExists(d, path)
    THEN [q \in DOMAIN d \ {path} |-> d[q]]
    ELSE d

\* format_filesize(content_length): float(None) raises TypeError
FormatFilesizeRaises(n) == n = NoneLength

RECURSIVE SumSeq(_)
SumSeq(s) == IF Len(s) = 0 THEN 0 ELSE SumSeq(DropLast(s)) + s[Len(s)]

\* the descriptors of the fetch specification carry a content length
WithLength(f, n) == [content_length |-> n] @@ f

FetchTitles == { <<"a">>, <<"a", "?", " ", " ", "b">> }

ChunkLists ==
    UNION { [1..n -> 0..MaxChunkLen] : n \in 0..MaxChunks }

\* responses: the chunks of the body and the declared content-length
\* header, NoneLength when the header is absent
Responses ==
    { [chunks |-> c, declared |-> d] :
        c \in ChunkLists, d \in {NoneLength, 0} \cup {SumSeq(cc) : cc \in ChunkLists} }

FetchFormatLists(total) ==
    { <<>>,
      << WithLength(Fmt(140, TRUE, FALSE, 0, 0, 128, "m4a"), total) >> }
    \cup { << WithLength(Fmt(18, TRUE, TRUE, 360, 500, 96, "mp4"), n) >> :
              n \in {NoneLength, 0, total} }

\* the file a download to the same path left earlier
PriorBytes == 7

FetchInit ==
    /\ fpc = "extract"
    /\ title \in FetchTitles
    /\ filename \in {NoFilename, <<"f">>}
    /\ has_callback \in BOOLEAN
    /\ response \in Responses
    /\ response.declared \in {NoneLength, SumSeq(response.chunks)}
    /\ formats \in FetchFormatLists(SumSeq(response.chunks))
    /\ quality = S_best
    /\ selected = 0
    /\ selStage = "idle"
    /\ \E prior \in BOOLEAN :
          disk = IF prior /\ Len(formats) > 0
                 THEN JoinPath(OutputDir,
                               IF filename # NoFilename THEN filename
                               ELSE SafeFilename(title),
                               formats[1].container) :> PriorBytes
                 ELSE <<>>
    /\ dirs = {}
    /\ output_file = NoPath
    /\ content_length = 0
    /\ requests = 0
    /\ opens = 0
    /\ chunk_index = 0
    /\ bytes_downloaded = 0
    /\ progress = <<>>
    /\ cause = NoError
    /\ ferror = NoError

\* no single download in progress
FetchIdle ==
    /\ fpc = "idle"
    /\ title = <<>>
    /\ filename = NoFilename
    /\ has_callback = FALSE
    /\ response = [chunks |-> <<>>, declared |-> NoneLength]
    /\ disk = <<>>
    /\ dirs = {}
    /\ output_file = NoPath
    /\ content_length = 0
    /\ requests = 0
    /\ opens = 0
    /\ chunk_index = 0
    /\ bytes_downloaded = 0
    /\ progress = <<>>
    /\ cause = NoError
    /\ ferror = NoError

\* download_video, line 78: extract_video_info returns or raises
FetchExtract ==
    /\ fpc = "extract"
    /\ \E r \in {"ok", "VideoUnavailableError", "ExtractionError", "RateLimitError"} :
          IF r = "ok"
          THEN fpc' = "select" /\ ferror' = ferror
          ELSE fpc' = "raised" /\ ferror' = r
    /\ UNCHANGED <<title, filename, has_callback, response, disk, dirs,
                   output_file, content_length, requests, opens, chunk_index,
                   bytes_downloaded, progress, cause>>
    /\ UNCHANGED <<formats, quality, selected, selStage>>

\* a download_video that creates the directory before it selects
FetchSelectAfterMakedirs ==
    /\ fpc = "select"
    /\ dirs' = dirs \cup {OutputDir}
    /\ selected' = SelectFormat(formats, quality)
    /\ IF selected' = 0
       THEN fpc' = "raised" /\ ferror' = "DownloadError"
       ELSE fpc' = "prepare" /\ ferror' = ferror
    /\ UNCHANGED <<title, filename, has_callback, response, disk,
                   output_file, content_length, requests, opens, chunk_index,
                   bytes_downloaded, progress, cause>>
    /\ UNCHANGED <<formats, quality, selStage>>

\* download_video, lines 81-84
FetchSelect ==
    /\ fpc = "select"
    /\ selected' = SelectFormat(formats, quality)
    /\ IF selected' = 0
       THEN fpc' = "raised" /\ ferror' = "DownloadError"
       ELSE fpc' = "prepare" /\ ferror' = ferror
    /\ UNCHANGED <<title, filename, has_callback, response, disk, dirs,
                   output_file, content_length, requests, opens, chunk_index,
                   bytes_downloaded, progress, cause>>
    /\ UNCHANGED <<formats, quality, selStage>>

\* download_video, lines 87-105: makedirs, the destination path, the
\* content length of the descriptor and the log line that formats it
FetchPrepare ==
    /\ fpc = "prepare"
    /\ dirs' = dirs \cup {OutputDir}
    /\ output_file' = JoinPath(OutputDir,
                               IF filename # NoFilename THEN filename
                               ELSE SafeFilename(title),
                               formats[selected].container)
    /\ content_length' = formats[selected].content_length
    /\ IF FormatFilesizeRaises(content_length')
       THEN fpc' = "raised" /\ ferror' = "TypeError"
       ELSE fpc' = "request" /\ ferror' = ferror
    /\ UNCHANGED <<title, filename, has_callback, response, disk, requests,
                   opens, chunk_index, bytes_downloaded, progress, cause>>
    /\ UNCHANGED selVars

\* _download_stream, lines 313-322: the streaming request, the status
\* check and the refinement of an unknown content length
FetchRequest ==
    /\ fpc = "request"
    /\ requests' = requests + 1
    /\ \E r \in {"ok", "RequestException"} :
          IF r = "ok"
          THEN /\ content_length' =
                     IF content_length = 0
                     THEN IF response.declared = NoneLength THEN 0
                          ELSE response.declared
                     ELSE content_length
               /\ bytes_downloaded' = 0
               /\ fpc' = "open"
               /\ cause' = cause
          ELSE /\ fpc' = "cleanup"
               /\ cause' = r
               /\ UNCHANGED <<content_length, bytes_downloaded>>
    /\ UNCHANGED <<title, filename, has_callback, response, disk, dirs,
                   output_file, opens, chunk_index, progress, ferror>>
    /\ UNCHANGED selVars

\* _download_stream, line 325: open(output_file, 'wb')
FetchOpen ==
    /\ fpc = "open"
    /\ \E r \in {"ok", "IOError"} :
          IF r = "ok"
          THEN /\ disk' = OpenForWriting(disk, output_file)
               /\ opens' = opens + 1
               /\ fpc' = "iterate"
               /\ cause' = cause
          ELSE /\ fpc' = "cleanup"
               /\ cause' = r
               /\ UNCHANGED <<disk, opens>>
    /\ UNCHANGED <<title, filename, has_callback, response, dirs, output_file,
                   content_length, requests, chunk_index, bytes_downloaded,
                   progress, ferror>>
    /\ UNCHANGED selVars

\* _download_stream, lines 327-332: the next chunk of the body is written,
\* an empty chunk is skipped, the transport or the write fails, or the body
\* ends and the file is closed
FetchNextChunk ==
    /\ fpc = "iterate"
    /\ \E r \in {"next", "RequestException", "IOError"} :
          IF r = "RequestException"
          THEN /\ fpc' = "cleanup"
               /\ cause' = r
               /\ UNCHANGED <<disk, chunk_index, bytes_downloaded>>
          ELSE IF chunk_index = Len(response.chunks)
          THEN /\ r = "next"
               /\ fpc' = "final"
               /\ UNCHANGED <<disk, chunk_index, bytes_downloaded, cause>>
          ELSE LET chunk == response.chunks[chunk_index + 1] IN
               /\ chunk_index' = chunk_index + 1
               /\ IF chunk = 0
                  THEN /\ r = "next"
                       /\ UNCHANGED <<fpc, disk, bytes_downloaded, cause>>
                  ELSE IF r = "IOError"
                  THEN /\ fpc' = "cleanup"
                       /\ cause' = r
                       /\ UNCHANGED <<disk, bytes_downloaded>>
                  ELSE /\ disk' = WriteBytes(disk, output_file, chunk)
                       /\ bytes_downloaded' = bytes_downloaded + chunk
                       /\ fpc' = IF has_callback THEN "callback" ELSE "iterate"
                       /\ cause' = cause
    /\ UNCHANGED <<title, filename, has_callback, response, dirs, output_file,
                   content_length, requests, opens, progress, ferror>>
    /\ UNCHANGED selVars

\* _download_stream, lines 335-337: the progress call after a chunk; an
\* exception of the callback leaves through the except clause of
\* download_video
FetchCallback ==
    /\ fpc = "callback"
    /\ progress' = Append(progress, <<bytes_downloaded, content_length>>)
    /\ \E r \in {"ok", "Exception"} :
          IF r = "ok"
          THEN fpc' = "iterate" /\ cause' = cause
          ELSE fpc' = "cleanup" /\ cause' = r
    /\ UNCHANGED <<title, filename, has_callback, response, disk, dirs,
                   output_file, content_length, requests, opens, chunk_index,
                   bytes_downloaded, ferror>>
    /\ UNCHANGED selVars

\* a _download_stream that returns without the final progress call
FetchFinalWithoutCall ==
    /\ fpc = "final"
    /\ fpc' = "returned"
    /\ UNCHANGED <<title, filename, has_callback, response, disk, dirs,
                   output_file, content_length, requests, opens, chunk_index,
                   bytes_downloaded, progress, cause, ferror>>
    /\ UNCHANGED selVars

\* _download_stream, lines 340-342, and download_video, lines 116-117:
\* the final progress call when the total is known, then the return
FetchFinal ==
    /\ fpc = "final"
    /\ IF has_callback /\ content_length > 0
       THEN /\ progress' = Append(progress, <<content_length, content_length>>)
            /\ \E r \in {"ok", "Exception"} :
                  IF r = "ok"
                  THEN fpc' = "returned" /\ cause' = cause
                  ELSE fpc' = "cleanup" /\ cause' = r
       ELSE /\ fpc' = "returned"
            /\ UNCHANGED <<progress, cause>>
    /\ UNCHANGED <<title, filename, has_callback, response, disk, dirs,
                   output_file, content_length, requests, opens, chunk_index,
                   bytes_downloaded, ferror>>
    /\ UNCHANGED selVars

\* download_video, lines 119-124: the partial file is removed and
\* DownloadError is raised
FetchCleanup ==
    /\ fpc = "cleanup"
    /\ disk' = RemoveIfExists(disk, output_file)
    /\ ferror' = "DownloadError"
    /\ fpc' = "raised"
    /\ UNCHANGED <<title, filename, has_callback, response, dirs, output_file,
                   content_length, requests, opens, chunk_index,
                   bytes_downloaded, progress, cause>>
    /\ UNCHANGED selVars

(***************************************************************************)
(* exceptions.py: the exception classes and their base classes             *)
(***************************************************************************)
ExceptionClasses ==
    {"Exception", "ExtractionError", "DownloadError", "RateLimitError",
     "VideoUnavailableError", "PlaylistUnavailableError",
     "UnsupportedStreamError", "KeyError", "ValueError"}

\* class X(Base)
BaseOf(c) ==
    CASE c = "VideoUnavailableError"    -> "ExtractionError"
      [] c = "PlaylistUnavailableError" -> "ExtractionError"
      [] c = "UnsupportedStreamError"   -> "ExtractionError"
      [] OTHER                          -> "Exception"

\* isinstance(e, c), which is what an except clause tests
RECURSIVE IsInstance(_, _)
IsInstance(e, c) ==
    IF e = c THEN TRUE
    ELSE IF e = "Exception" THEN FALSE
    ELSE IsInstance(BaseOf(e), c)

(***************************************************************************)
(* utils.retry_on_rate_limit around YouTubeAPIExtractor._make_api_request, *)
(* called by extract_video_info.  Time is counted in units of              *)
(* 1/JitterSteps second.                                                   *)
(***************************************************************************)
RATE_LIMIT_INITIAL_DELAY == 5
MAX_RATE_LIMIT_RETRIES   == 5

Seconds(n) == n * JitterSteps

NoValue == "NoValue"

\* time.time() % 1: a fraction of a second
Jitter == 0 .. JitterSteps - 1

\* a backoff that does not grow
ConstantDelay(d, jitter) == d

\* delay = delay * 2 + (time.time() % 1)
NextDelay(d, jitter) == d * 2 + jitter

\* a cap reached one retry early
ExhaustedOneEarly(n) == n >= MAX_RATE_LIMIT_RETRIES

\* if retries > MAX_RATE_LIMIT_RETRIES: raise e
RetriesExhausted(n) == n > MAX_RATE_LIMIT_RETRIES

\* an except clause that matches every exception
CaughtAlways(e) == TRUE

\* except RateLimitError as e
CaughtByWrapper(e) == IsInstance(e, "RateLimitError")

\* except (KeyError, ValueError) as e
CaughtByExtract(e) == IsInstance(e, "KeyError") \/ IsInstance(e, "ValueError")

\* _make_api_request returns the decoded response, with or without items,
\* or raises RateLimitError (quota exceeded) or ExtractionError
RequestOutcomes == {"items", "no items", "RateLimitError", "ExtractionError"}

RetryInit ==
    /\ rpc = "call"
    /\ retries = 0
    /\ delay = Seconds(RATE_LIMIT_INITIAL_DELAY)
    /\ attempts = <<>>
    /\ sleeps = <<>>
    /\ rvalue = NoValue
    /\ rerror = NoError
    /\ xerror = NoError

\* no extraction in progress
RetryIdle ==
    /\ rpc = "idle"
    /\ retries = 0
    /\ delay = 0
    /\ attempts = <<>>
    /\ sleeps = <<>>
    /\ rvalue = NoValue
    /\ rerror = NoError
    /\ xerror = NoError

\* wrapper, lines 155-161: the loop test, one call of the wrapped function,
\* and the except clause up to the decision to retry or to re-raise
RetryCall ==
    /\ rpc = "call"
    /\ IF retries <= MAX_RATE_LIMIT_RETRIES
       THEN \E r \in RequestOutcomes :
               /\ attempts' = Append(attempts, r)
               /\ IF r \notin ExceptionClasses
                  THEN /\ rvalue' = r
                       /\ rpc' = "returned"
                       /\ UNCHANGED <<retries, rerror>>
                  ELSE IF CaughtByWrapper(r)
                  THEN /\ retries' = retries + 1
                       /\ IF RetriesExhausted(retries')
                          THEN rpc' = "raised" /\ rerror' = r
                          ELSE rpc' = "sleep" /\ rerror' = rerror
                       /\ rvalue' = rvalue
                  ELSE /\ rpc' = "raised"
                       /\ rerror' = r
                       /\ UNCHANGED <<retries, rvalue>>
       ELSE /\ rpc' = "returned"
            /\ rvalue' = "None"
            /\ UNCHANGED <<retries, attempts, rerror>>
    /\ UNCHANGED <<delay, sleeps, xerror>>

\* wrapper, lines 164-166: time.sleep(delay), then the longer delay
RetrySleep ==
    /\ rpc = "sleep"
    /\ sleeps' = Append(sleeps, delay)
    /\ \E jitter \in Jitter : delay' = NextDelay(delay, jitter)
    /\ rpc' = "call"
    /\ UNCHANGED <<retries, attempts, rvalue, rerror, xerror>>

\* extract_video_info, lines 121-156: no items is VideoUnavailableError;
\* a KeyError or ValueError while reading the item is caught at line 158
\* and raised as ExtractionError
ExtractFromResponse ==
    /\ rpc = "returned"
    /\ IF rvalue = "no items"
       THEN xerror' = "VideoUnavailableError"
       ELSE \E r \in {"ok", "KeyError", "ValueError"} :
               xerror' = IF r = "ok" THEN NoError
                         ELSE IF CaughtByExtract(r) THEN "ExtractionError"
                         ELSE r
    /\ rpc' = "done"
    /\ UNCHANGED <<retries, delay, attempts, sleeps, rvalue, rerror>>

\* extract_video_info, lines 117-160: the exception of _make_api_request
\* passes the except clause of line 158 unless that clause matches it
ExtractPropagate ==
    /\ rpc = "raised"
    /\ xerror' = IF CaughtByExtract(rerror) THEN "ExtractionError" ELSE rerror
    /\ rpc' = "done"
    /\ UNCHANGED <<retries, delay, attempts, sleeps, rvalue, rerror>>

(***************************************************************************)
(* The progress sink of a collection download, and the sequential          *)
(* VideoDownloader.download_playlist                                       *)
(***************************************************************************)
\* video.get('title'): the title of the playlist item with this locator
TitleOf(url) == <<"title", url>>

\* one positional argument: the quantity passed and its value
Arg(kind, v) == [kind |-> kind, v |-> v]

\* one call of the sink: its positional arguments, and the locator of the
\* item whose download_video made the call
SinkCall(args, url) == [args |-> args, item |-> url]

\* the byte counts _download_stream reports
SinkBytes == 1..MaxChunks

SinkIdle ==
    /\ progress_callback = FALSE
    /\ sink = {}

SinkInit ==
    /\ progress_callback \in BOOLEAN
    /\ sink = {}

\* _worker, lines 154-166: a progress call made by download_video while
\* worker w downloads; wrapped_cb reads index, total and title from the
\* locals of this worker's frame
WorkerProgress(w) ==
    /\ wpc[w] = "download"
    /\ progress_callback
    /\ LET task  == wtask[w]
           index == task.index
           total == task.total
           ttl   == TitleOf(task.url)
       IN  \E b \in SinkBytes :
              sink' = sink \cup
                 { SinkCall(<< Arg("bytesDownloaded", b),
                               Arg("totalBytes", MaxChunks),
                               Arg("elapsedSeconds", 0),
                               Arg("itemIndex", index),
                               Arg("itemTotal", total),
                               Arg("itemTitle", ttl) >>, task.url) }
    /\ UNCHANGED concVars
    /\ UNCHANGED progress_callback

\* the exceptions download_video raises for one item: the video is
\* unavailable, the extraction fails, rate limiting outlasts the retries,
\* no format suits or the download fails (both DownloadError)
ItemErrors ==
    {"VideoUnavailableError", "ExtractionError", "RateLimitError", "DownloadError"}

\* playlists of the sequential download: each item has a locator and the
\* fixed result of its download_video call
SeqPlaylists ==
    UNION { { s \in [1..n -> [url : 1..n, result : {"ok"} \cup ItemErrors]] :
                \A i \in 1..n : s[i].url = i }
            : n \in 0..MaxVideos }

SeqInit ==
    /\ svideos \in SeqPlaylists
    /\ spc = "extract"
    /\ si = 0
    /\ sfiles = <<>>
    /\ serror = NoError

\* no sequential collection download in progress
SeqIdle ==
    /\ svideos = <<>>
    /\ spc = "idle"
    /\ si = 0
    /\ sfiles = <<>>
    /\ serror = NoError

\* download_playlist, lines 152-163: the metadata fetch returns the item
\* list or raises; nothing catches its exception
SeqExtract ==
    /\ spc = "extract"
    /\ \E fetch \in {"ok", "PlaylistUnavailableError", "ExtractionError",
                     "RateLimitError"} :
          IF fetch = "ok"
          THEN spc' = "loop" /\ serror' = serror
          ELSE spc' = "raised" /\ serror' = fetch
    /\ UNCHANGED <<svideos, si, sfiles>>
    /\ UNCHANGED sinkVars

\* download_playlist, line 166: the next item of enumerate(videos, 1), or
\* the end of the loop
SeqLoop ==
    /\ spc = "loop"
    /\ IF si < Len(svideos)
       THEN si' = si + 1 /\ spc' = "download"
       ELSE si' = si /\ spc' = "finish"
    /\ UNCHANGED <<svideos, sfiles, serror>>
    /\ UNCHANGED sinkVars

\* download_playlist, lines 174-180: a progress call made by download_video
\* for item i; wrapped_callback hands i, total_videos and video_title over
\* first
SeqProgress ==
    /\ spc = "download"
    /\ progress_callback
    /\ LET i           == si
           total_videos == Len(svideos)
           video_title  == TitleOf(svideos[si].url)
       IN  \E b \in SinkBytes :
              sink' = sink \cup
                 { SinkCall(<< Arg("itemIndex", i),
                               Arg("itemTotal", total_videos),
                               Arg("itemTitle", video_title),
                               Arg("bytesDownloaded", b),
                               Arg("totalBytes", MaxChunks),
                               Arg("elapsedSeconds", 0) >>, svideos[si].url) }
    /\ UNCHANGED seqVars
    /\ UNCHANGED progress_callback

\* download_playlist, lines 183-195: download_video returns and the path
\* is appended, or it raises; VideoUnavailableError and DownloadError are
\* caught and the loop continues, any other exception leaves the call
SeqDownload ==
    /\ spc = "download"
    /\ LET res == svideos[si].result
       IN  IF res = "ok"
           THEN /\ sfiles' = Append(sfiles, <<"playlist_dir", svideos[si].url>>)
                /\ spc' = "loop"
                /\ serror' = serror
           ELSE IF IsInstance(res, "VideoUnavailableError")
                   \/ IsInstance(res, "DownloadError")
           THEN /\ spc' = "loop"
                /\ UNCHANGED <<sfiles, serror>>
           ELSE /\ spc' = "raised"
                /\ serror' = res
                /\ sfiles' = sfiles
    /\ UNCHANGED <<svideos, si>>
    /\ UNCHANGED sinkVars

\* download_playlist, lines 197-201
SeqFinish ==
    /\ spc = "finish"
    /\ IF Len(sfiles) = 0
       THEN spc' = "raised" /\ serror' = "DownloadError"
       ELSE spc' = "returned" /\ serror' = serror
    /\ UNCHANGED <<svideos, si, sfiles>>
    /\ UNCHANGED sinkVars

(***************************************************************************)
(* The call sites that construct a ConcurrentDownloader: cli.py, web.py    *)
(* and main.py                                                             *)
(***************************************************************************)
WorkerFloor == 1
WorkerCap   == 16

Min(a, b) == IF a < b THEN a ELSE b
Max(a, b) == IF a > b THEN a ELSE b

\* the values of --max-workers and of the max_workers form field
RequestedValues == (0 - MaxRequested) .. (WorkerCap + MaxRequested)

\* cli.py: min(max(1, args.max_workers), 16)
Clamped(n) == Min(Max(WorkerFloor, n), WorkerCap)

\* for i in range(self.max_workers): the number of threads started
RangeLen(n) == Max(0, n)

CallerInit ==
    /\ site \in {"cli", "web", "main"}
    /\ requested \in RequestedValues
    /\ cstage = "input"

\* no call site at work
CallerIdle ==
    /\ site = "none"
    /\ requested = 0
    /\ cstage = "idle"

\* cli.download_playlist, lines 320-328
CliDownloadPlaylist ==
    /\ site = "cli"
    /\ cstage = "input"
    /\ max_workers' = Clamped(requested)
    /\ cstage' = "constructed"
    /\ UNCHANGED <<site, requested>>
    /\ UNCHANGED <<videos, mainPc, spawned, enqueued, running, workers, wpc,
                   wtask, task_queue, unfinished_tasks, result_queue,
                   downloaded_files, errors, raised>>

\* web.download_playlist, lines 203-214: int() of the form field
WebDownloadPlaylist ==
    /\ site = "web"
    /\ cstage = "input"
    /\ max_workers' = requested
    /\ cstage' = "constructed"
    /\ UNCHANGED <<site, requested>>
    /\ UNCHANGED <<videos, mainPc, spawned, enqueued, running, workers, wpc,
                   wtask, task_queue, unfinished_tasks, result_queue,
                   downloaded_files, errors, raised>>

\* main.download_playlist, lines 196-205: int() of the form field
MainDownloadPlaylist ==
    /\ site = "main"
    /\ cstage = "input"
    /\ max_workers' = requested
    /\ cstage' = "constructed"
    /\ UNCHANGED <<site, requested>>
    /\ UNCHANGED <<videos, mainPc, spawned, enqueued, running, workers, wpc,
                   wtask, task_queue, unfinished_tasks, result_queue,
                   downloaded_files, errors, raised>>

\* _start_workers, lines 210-217, run by the download_playlist call that
\* follows: the pool is started with range(self.max_workers) threads
CallerStartWorkers ==
    /\ cstage = "constructed"
    /\ running' = TRUE
    /\ spawned' = RangeLen(max_workers)
    /\ cstage' = "started"
    /\ UNCHANGED <<site, requested>>
    /\ UNCHANGED <<videos, max_workers, mainPc, enqueued, workers, wpc,
                   wtask, task_queue, unfinished_tasks, result_queue,
                   downloaded_files, errors, raised>>

\* no download with shared destination files in progress
ShareIdle ==
    /\ ptasks = <<>>
    /\ pool = 1
    /\ tpc = <<>>
    /\ toffset = <<>>
    /\ pdisk = <<>>
    /\ psuccess = <<>>
    /\ tops = <<>>

\* no reused ConcurrentDownloader
ReuseIdle ==
    /\ cpc = <<>>
    /\ citems = <<>>
    /\ cenq = <<>>
    /\ cfiles = <<>>
    /\ cerrs = <<>>
    /\ iqueue = <<>>
    /\ iunfinished = 0
    /\ iresults = <<>>
    /\ irunning = FALSE
    /\ iworkers = <<>>
    /\ thr = <<>>

AuxIdle == CallerIdle /\ ShareIdle /\ ReuseIdle

(***************************************************************************)
(* The destination files of the tasks of one concurrent download: every    *)
(* worker runs download_video for the task it took, all on one disk        *)
(***************************************************************************)
ShareTitles == { <<"a">>, <<"a", "?">>, <<"b">> }

\* how the download of a task ends: it completes, the request fails
\* before the file is opened, or the stream fails after the first chunk
ShareEndings == {"ok", "RequestException", "IOError"}

ShareTaskIds == 1..Len(ptasks)

\* download_video, lines 90-97: no filename is given, so the path is the
\* output directory, the sanitized title and the container
DestPath(t) == JoinPath(OutputDir, SafeFilename(ptasks[t].title), "mp4")

\* the tasks a worker is working on
ShareRunning ==
    {t \in ShareTaskIds : tpc[t] \in {"request", "open", "write", "cleanup"}}

ShareInit ==
    /\ ptasks \in UNION { [1..n -> [title : ShareTitles, ending : ShareEndings]]
                            : n \in 1..MaxShareTasks }
    /\ pool \in 1..MaxSharePool
    /\ tpc = [t \in 1..Len(ptasks) |-> "queued"]
    /\ toffset = [t \in 1..Len(ptasks) |-> 0]
    /\ pdisk = <<>>
    /\ psuccess = <<>>
    /\ tops = [t \in 1..Len(ptasks) |-> {}]

\* _worker, lines 137-140: a free worker takes the task at the head of the
\* queue
ShareTake(t) ==
    /\ tpc[t] = "queued"
    /\ \A u \in 1..(t - 1) : tpc[u] # "queued"
    /\ Cardinality(ShareRunning) < pool
    /\ tpc' = [tpc EXCEPT ![t] = "request"]
    /\ UNCHANGED <<ptasks, pool, toffset, pdisk, psuccess, tops>>

\* _download_stream, lines 313-314: the streaming request and its status
ShareRequest(t) ==
    /\ tpc[t] = "request"
    /\ tpc' = [tpc EXCEPT ![t] = IF ptasks[t].ending = "RequestException"
                                  THEN "cleanup" ELSE "open"]
    /\ UNCHANGED <<ptasks, pool, toffset, pdisk, psuccess, tops>>

\* _download_stream, line 325: open(output_file, 'wb')
ShareOpen(t) ==
    /\ tpc[t] = "open"
    /\ pdisk' = OpenForWriting(pdisk, DestPath(t))
    /\ toffset' = [toffset EXCEPT ![t] = 0]
    /\ tops' = [tops EXCEPT ![t] = @ \cup {"open"}]
    /\ tpc' = [tpc EXCEPT ![t] = "write"]
    /\ UNCHANGED <<ptasks, pool, psuccess>>

\* _download_stream, lines 327-332: the next chunk is written through the
\* task's own handle, at the handle's offset; a path removed meanwhile is
\* not created again by the write.  Or the stream fails.
ShareWrite(t) ==
    /\ tpc[t] = "write"
    /\ toffset[t] < MaxChunks
    /\ IF ptasks[t].ending = "IOError" /\ toffset[t] >= 1
       THEN /\ tpc' = [tpc EXCEPT ![t] = "cleanup"]
            /\ UNCHANGED <<toffset, pdisk, tops>>
       ELSE /\ toffset' = [toffset EXCEPT ![t] = @ + 1]
            /\ pdisk' = IF FileExists(pdisk, DestPath(t))
                        THEN [pdisk EXCEPT ![DestPath(t)] = Max(@, toffset[t] + 1)]
                        ELSE pdisk
            /\ tops' = [tops EXCEPT ![t] = @ \cup {"write"}]
            /\ UNCHANGED tpc
    /\ UNCHANGED <<ptasks, pool, psuccess>>

\* download_video, lines 116-117, and _worker, lines 179-185: the body has
\* ended, the path is returned and recorded as a success
ShareReturn(t) ==
    /\ tpc[t] = "write"
    /\ toffset[t] = MaxChunks
    /\ psuccess' = Append(psuccess, DestPath(t))
    /\ tpc' = [tpc EXCEPT ![t] = "success"]
    /\ UNCHANGED <<ptasks, pool, toffset, pdisk, tops>>

\* download_video, lines 119-124: the destination is removed when it
\* exists, DownloadError is raised and the worker records the failure
ShareCleanup(t) ==
    /\ tpc[t] = "cleanup"
    /\ pdisk' = RemoveIfExists(pdisk, DestPath(t))
    /\ tops' = [tops EXCEPT ![t] = IF FileExists(pdisk, DestPath(t))
                                    THEN @ \cup {"remove"} ELSE @]
    /\ tpc' = [tpc EXCEPT ![t] = "failed"]
    /\ UNCHANGED <<ptasks, pool, toffset, psuccess>>

(***************************************************************************)
(* Several download_playlist calls on one ConcurrentDownloader: the queue, *)
(* the result queue, the running flag and the worker list are fields of    *)
(* the instance (__init__, lines 33-36)                                    *)
(***************************************************************************)
CallIds == 1..MaxCalls

ThreadIds == 1..(MaxCalls * MaxReusePool)

\* the threads call c starts: range(self.max_workers)
ThreadsOf(c) == ((c - 1) * MaxReusePool + 1) .. (c * MaxReusePool)

NoCallTask == [call |-> 0, index |-> 0]

\* the task dict call c builds for item i
CallTask(c, i) == [call |-> c, index |-> i]

RECURSIVE SeqOfRange(_, _)
SeqOfRange(a, b) == IF a > b THEN <<>> ELSE <<a>> \o SeqOfRange(a + 1, b)

ReuseInit ==
    /\ cpc = [c \in CallIds |-> "not_called"]
    /\ citems \in [CallIds -> 1..MaxReuseItems]
    /\ cenq = [c \in CallIds |-> 0]
    /\ cfiles = [c \in CallIds |-> <<>>]
    /\ cerrs = [c \in CallIds |-> <<>>]
    /\ iqueue = <<>>
    /\ iunfinished = 0
    /\ iresults = <<>>
    /\ irunning = FALSE
    /\ iworkers = <<>>
    /\ thr = [t \in ThreadIds |-> [pc |-> "unstarted", task |-> NoCallTask, by |-> 0]]

\* download_playlist, lines 62-76, and _start_workers: call c is made, on
\* the same instance as the calls before it, and starts its workers
ReuseStartWorkers(c) ==
    /\ cpc[c] = "not_called"
    /\ \A b \in 1..(c - 1) : cpc[b] # "not_called"
    /\ irunning' = TRUE
    /\ iworkers' = SeqOfRange((c - 1) * MaxReusePool + 1, c * MaxReusePool)
    /\ thr' = [t \in ThreadIds |->
                 IF t \in ThreadsOf(c)
                 THEN [pc |-> "loop", task |-> NoCallTask, by |-> c]
                 ELSE thr[t]]
    /\ cpc' = [cpc EXCEPT ![c] = "enqueue"]
    /\ UNCHANGED <<citems, cenq, cfiles, cerrs, iqueue, iunfinished, iresults>>

\* download_playlist, lines 79-96: one iteration of the enqueue loop, or
\* its end
ReuseEnqueue(c) ==
    /\ cpc[c] = "enqueue"
    /\ IF cenq[c] < citems[c]
       THEN /\ iqueue' = Append(iqueue, CallTask(c, cenq[c] + 1))
            /\ iunfinished' = iunfinished + 1
            /\ cenq' = [cenq EXCEPT ![c] = @ + 1]
            /\ UNCHANGED cpc
       ELSE /\ cpc' = [cpc EXCEPT ![c] = "join"]
            /\ UNCHANGED <<iqueue, iunfinished, cenq>>
    /\ UNCHANGED <<citems, cfiles, cerrs, iresults, irunning, iworkers, thr>>

\* download_playlist, line 99: task_queue.join()
ReuseJoin(c) ==
    /\ cpc[c] = "join"
    /\ iunfinished = 0
    /\ cpc' = [cpc EXCEPT ![c] = "stop_workers"]
    /\ UNCHANGED <<citems, cenq, cfiles, cerrs, iqueue, iunfinished, iresults,
                   irunning, iworkers, thr>>

\* _stop_workers, line 224: self.running = False
ReuseStopSignal(c) ==
    /\ cpc[c] = "stop_workers"
    /\ irunning' = FALSE
    /\ cpc' = [cpc EXCEPT ![c] = "join_workers"]
    /\ UNCHANGED <<citems, cenq, cfiles, cerrs, iqueue, iunfinished, iresults,
                   iworkers, thr>>

\* _stop_workers, lines 227-231: every thread of self.workers has exited,
\* or its join(timeout=2.0) has given up; the list is reset
ReuseStopJoin(c) ==
    /\ cpc[c] = "join_workers"
    /\ \E timeout \in BOOLEAN :
          timeout \/ \A k \in 1..Len(iworkers) : thr[iworkers[k]].pc = "exited"
    /\ iworkers' = <<>>
    /\ cpc' = [cpc EXCEPT ![c] = "aggregate"]
    /\ UNCHANGED <<citems, cenq, cfiles, cerrs, iqueue, iunfinished, iresults,
                   irunning, thr>>

\* download_playlist, lines 108-122: one iteration of the drain loop, or
\* the return
ReuseAggregate(c) ==
    /\ cpc[c] = "aggregate"
    /\ IF Len(iresults) > 0
       THEN /\ iresults' = Tail(iresults)
            /\ IF Head(iresults).success
               THEN /\ cfiles' = [cfiles EXCEPT ![c] = Append(@, Head(iresults).task)]
                    /\ UNCHANGED cerrs
               ELSE /\ cerrs' = [cerrs EXCEPT ![c] = Append(@, Head(iresults).task)]
                    /\ UNCHANGED cfiles
            /\ UNCHANGED cpc
       ELSE /\ cpc' = [cpc EXCEPT ![c] = "returned"]
            /\ UNCHANGED <<iresults, cfiles, cerrs>>
    /\ UNCHANGED <<citems, cenq, iqueue, iunfinished, irunning, iworkers, thr>>

\* _worker, line 133: while self.running
ThreadCheckRunning(t) ==
    /\ thr[t].pc = "loop"
    /\ thr' = [thr EXCEPT ![t].pc = IF irunning THEN "get" ELSE "exited"]
    /\ UNCHANGED <<cpc, citems, cenq, cfiles, cerrs, iqueue, iunfinished,
                   iresults, irunning, iworkers>>

\* _worker, lines 137-140: task_queue.get(timeout=1.0)
ThreadGet(t) ==
    /\ thr[t].pc = "get"
    /\ IF Len(iqueue) > 0
       THEN /\ thr' = [thr EXCEPT ![t].pc = "download", ![t].task = Head(iqueue)]
            /\ iqueue' = Tail(iqueue)
       ELSE /\ thr' = [thr EXCEPT ![t].pc = "loop"]
            /\ UNCHANGED iqueue
    /\ UNCHANGED <<cpc, citems, cenq, cfiles, cerrs, iunfinished, iresults,
                   irunning, iworkers>>

\* _worker, lines 143-198: the download succeeds or fails and the result
\* dict is put on self.result_queue
ThreadDownload(t) ==
    /\ thr[t].pc = "download"
    /\ \E ok \in BOOLEAN :
          iresults' = Append(iresults, [success |-> ok, task |-> thr[t].task])
    /\ thr' = [thr EXCEPT ![t].pc = "task_done"]
    /\ UNCHANGED <<cpc, citems, cenq, cfiles, cerrs, iqueue, iunfinished,
                   irunning, iworkers>>

\* _worker, line 201: task_done
ThreadTaskDone(t) ==
    /\ thr[t].pc = "task_done"
    /\ iunfinished' = iunfinished - 1
    /\ thr' = [thr EXCEPT ![t].pc = "loop", ![t].task = NoCallTask]
    /\ UNCHANGED <<cpc, citems, cenq, cfiles, cerrs, iqueue, iresults,
                   irunning, iworkers>>

vars == <<selVars, concVars, fetchVars, retryVars, seqVars, sinkVars, auxVars>>

SelNext ==
    \/ DownloadVideoSelect /\ UNCHANGED <<concVars, fetchVars, retryVars, seqVars, sinkVars, auxVars>>
    \/ CliDownloadVideo /\ UNCHANGED <<concVars, fetchVars, retryVars, seqVars, sinkVars, auxVars>>

SelectInit == SelInit /\ ConcIdle /\ FetchIdle /\ RetryIdle /\ SeqIdle /\ SinkIdle /\ AuxIdle

SpecSelect == SelectInit /\ [][SelNext]_vars

Next ==
    \/ ExtractPlaylist /\ UNCHANGED <<selVars, fetchVars, retryVars, seqVars, sinkVars, auxVars>>
    \/ StartWorkers /\ UNCHANGED <<selVars, fetchVars, retryVars, seqVars, sinkVars, auxVars>>
    \/ SpawnWorker /\ UNCHANGED <<selVars, fetchVars, retryVars, seqVars, sinkVars, auxVars>>
    \/ EnqueueTask /\ UNCHANGED <<selVars, fetchVars, retryVars, seqVars, sinkVars, auxVars>>
    \/ JoinTaskQueue /\ UNCHANGED <<selVars, fetchVars, retryVars, seqVars, sinkVars, auxVars>>
    \/ StopWorkers /\ UNCHANGED <<selVars, fetchVars, retryVars, seqVars, sinkVars, auxVars>>
    \/ AggregateResult /\ UNCHANGED <<selVars, fetchVars, retryVars, seqVars, sinkVars, auxVars>>
    \/ ReturnResults /\ UNCHANGED <<selVars, fetchVars, retryVars, seqVars, sinkVars, auxVars>>
    \/ ExceptReraise /\ UNCHANGED <<selVars, fetchVars, retryVars, seqVars, sinkVars, auxVars>>
    \/ \E w \in WorkerIds :
          \/ WorkerCheckRunning(w) /\ UNCHANGED <<selVars, fetchVars, retryVars, seqVars, sinkVars, auxVars>>
          \/ WorkerGet(w) /\ UNCHANGED <<selVars, fetchVars, retryVars, seqVars, sinkVars, auxVars>>
          \/ WorkerDownload(w) /\ UNCHANGED <<selVars, fetchVars, retryVars, seqVars, sinkVars, auxVars>>
          \/ WorkerTaskDone(w) /\ UNCHANGED <<selVars, fetchVars, retryVars, seqVars, sinkVars, auxVars>>

Init == ConcInit /\ SelIdle /\ FetchIdle /\ RetryIdle /\ SeqIdle /\ SinkIdle /\ AuxIdle

Spec == Init /\ [][Next]_vars

FetchNext ==
    \/ FetchExtract /\ UNCHANGED <<concVars, retryVars, seqVars, sinkVars, auxVars>>
    \/ FetchSelect /\ UNCHANGED <<concVars, retryVars, seqVars, sinkVars, auxVars>>
    \/ FetchPrepare /\ UNCHANGED <<concVars, retryVars, seqVars, sinkVars, auxVars>>
    \/ FetchRequest /\ UNCHANGED <<concVars, retryVars, seqVars, sinkVars, auxVars>>
    \/ FetchOpen /\ UNCHANGED <<concVars, retryVars, seqVars, sinkVars, auxVars>>
    \/ FetchNextChunk /\ UNCHANGED <<concVars, retryVars, seqVars, sinkVars, auxVars>>
    \/ FetchCallback /\ UNCHANGED <<concVars, retryVars, seqVars, sinkVars, auxVars>>
    \/ FetchFinal /\ UNCHANGED <<concVars, retryVars, seqVars, sinkVars, auxVars>>
    \/ FetchCleanup /\ UNCHANGED <<concVars, retryVars, seqVars, sinkVars, auxVars>>

FetchStart == FetchInit /\ ConcIdle /\ RetryIdle /\ SeqIdle /\ SinkIdle /\ AuxIdle

SpecFetch == FetchStart /\ [][FetchNext]_vars

RetryNext ==
    \/ RetryCall /\ UNCHANGED <<selVars, concVars, fetchVars, seqVars, sinkVars, auxVars>>
    \/ RetrySleep /\ UNCHANGED <<selVars, concVars, fetchVars, seqVars, sinkVars, auxVars>>
    \/ ExtractFromResponse /\ UNCHANGED <<selVars, concVars, fetchVars, seqVars, sinkVars, auxVars>>
    \/ ExtractPropagate /\ UNCHANGED <<selVars, concVars, fetchVars, seqVars, sinkVars, auxVars>>

RetryStart == RetryInit /\ SelIdle /\ ConcIdle /\ FetchIdle /\ SeqIdle /\ SinkIdle /\ AuxIdle

SpecRetry == RetryStart /\ [][RetryNext]_vars

\* one concurrent download on a small playlist, with threads that are
\* scheduled fairly: the calling thread and every worker keep taking steps
LiveInit ==
    /\ Init
    /\ Len(videos) <= MaxLiveVideos
    /\ max_workers <= MaxLiveWorkers

\* a step of the thread that runs download_playlist
MainStep ==
    /\ \/ ExtractPlaylist \/ StartWorkers \/ SpawnWorker \/ EnqueueTask
       \/ JoinTaskQueue \/ StopWorkers \/ AggregateResult \/ ReturnResults
       \/ ExceptReraise
    /\ UNCHANGED <<selVars, fetchVars, retryVars, seqVars, sinkVars, auxVars>>

\* a step of worker thread w
WorkerStep(w) ==
    /\ \/ WorkerCheckRunning(w) \/ WorkerGet(w) \/ WorkerDownload(w)
       \/ WorkerTaskDone(w)
    /\ UNCHANGED <<selVars, fetchVars, retryVars, seqVars, sinkVars, auxVars>>

SpecLive ==
    /\ LiveInit
    /\ [][Next]_vars
    /\ WF_vars(MainStep)
    /\ \A w \in WorkerIds : WF_vars(WorkerStep(w))

CallerNext ==
    \/ CliDownloadPlaylist
          /\ UNCHANGED <<selVars, fetchVars, retryVars, seqVars, sinkVars, shareVars, reuseVars>>
    \/ WebDownloadPlaylist
          /\ UNCHANGED <<selVars, fetchVars, retryVars, seqVars, sinkVars, shareVars, reuseVars>>
    \/ MainDownloadPlaylist
          /\ UNCHANGED <<selVars, fetchVars, retryVars, seqVars, sinkVars, shareVars, reuseVars>>
    \/ CallerStartWorkers
          /\ UNCHANGED <<selVars, fetchVars, retryVars, seqVars, sinkVars, shareVars, reuseVars>>

CallerStart ==
    /\ CallerInit
    /\ ConcIdle /\ SelIdle /\ FetchIdle /\ RetryIdle /\ SeqIdle /\ SinkIdle
    /\ ShareIdle /\ ReuseIdle

SpecCallers == CallerStart /\ [][CallerNext]_vars

ShareNext ==
    \E t \in ShareTaskIds :
       \/ ShareTake(t)
             /\ UNCHANGED <<selVars, concVars, fetchVars, retryVars, seqVars, sinkVars, callerVars, reuseVars>>
       \/ ShareRequest(t)
             /\ UNCHANGED <<selVars, concVars, fetchVars, retryVars, seqVars, sinkVars, callerVars, reuseVars>>
       \/ ShareOpen(t)
             /\ UNCHANGED <<selVars, concVars, fetchVars, retryVars, seqVars, sinkVars, callerVars, reuseVars>>
       \/ ShareWrite(t)
             /\ UNCHANGED <<selVars, concVars, fetchVars, retryVars, seqVars, sinkVars, callerVars, reuseVars>>
       \/ ShareReturn(t)
             /\ UNCHANGED <<selVars, concVars, fetchVars, retryVars, seqVars, sinkVars, callerVars, reuseVars>>
       \/ ShareCleanup(t)
             /\ UNCHANGED <<selVars, concVars, fetchVars, retryVars, seqVars, sinkVars, callerVars, reuseVars>>

ShareStart ==
    /\ ShareInit
    /\ ConcIdle /\ SelIdle /\ FetchIdle /\ RetryIdle /\ SeqIdle /\ SinkIdle
    /\ CallerIdle /\ ReuseIdle

SpecShare == ShareStart /\ [][ShareNext]_vars

ReuseNext ==
    \/ \E c \in CallIds :
          \/ ReuseStartWorkers(c) /\ 
                UNCHANGED <<selVars, concVars, fetchVars, retryVars, seqVars, sinkVars, callerVars, shareVars>>
          \/ ReuseEnqueue(c) /\ 
                UNCHANGED <<selVars, concVars, fetchVars, retryVars, seqVars, sinkVars, callerVars, shareVars>>
          \/ ReuseJoin(c) /\ 
                UNCHANGED <<selVars, concVars, fetchVars, retryVars, seqVars, sinkVars, callerVars, shareVars>>
          \/ ReuseStopSignal(c) /\ 
                UNCHANGED <<selVars, concVars, fetchVars, retryVars, seqVars, sinkVars, callerVars, shareVars>>
          \/ ReuseStopJoin(c) /\ 
                UNCHANGED <<selVars, concVars, fetchVars, retryVars, seqVars, sinkVars, callerVars, shareVars>>
          \/ ReuseAggregate(c) /\ 
                UNCHANGED <<selVars, concVars, fetchVars, retryVars, seqVars, sinkVars, callerVars, shareVars>>
    \/ \E t \in ThreadIds :
          \/ ThreadCheckRunning(t) /\ 
                UNCHANGED <<selVars, concVars, fetchVars, retryVars, seqVars, sinkVars, callerVars, shareVars>>
          \/ ThreadGet(t) /\ 
                UNCHANGED <<selVars, concVars, fetchVars, retryVars, seqVars, sinkVars, callerVars, shareVars>>
          \/ ThreadDownload(t) /\ 
                UNCHANGED <<selVars, concVars, fetchVars, retryVars, seqVars, sinkVars, callerVars, shareVars>>
          \/ ThreadTaskDone(t) /\ 
                UNCHANGED <<selVars, concVars, fetchVars, retryVars, seqVars, sinkVars, callerVars, shareVars>>

ReuseStart ==
    /\ ReuseInit
    /\ ConcIdle /\ SelIdle /\ FetchIdle /\ RetryIdle /\ SeqIdle /\ SinkIdle
    /\ CallerIdle /\ ShareIdle

SpecReuse == ReuseStart /\ [][ReuseNext]_vars

ProgressNext ==
    \/ Next /\ UNCHANGED sinkVars
    \/ \E w \in WorkerIds :
          WorkerProgress(w) /\ UNCHANGED <<selVars, fetchVars, retryVars, seqVars, auxVars>>
    \/ SeqExtract /\ UNCHANGED <<selVars, concVars, fetchVars, retryVars, auxVars>>
    \/ SeqLoop /\ UNCHANGED <<selVars, concVars, fetchVars, retryVars, auxVars>>
    \/ SeqProgress /\ UNCHANGED <<selVars, concVars, fetchVars, retryVars, auxVars>>
    \/ SeqDownload /\ UNCHANGED <<selVars, concVars, fetchVars, retryVars, auxVars>>
    \/ SeqFinish /\ UNCHANGED <<selVars, concVars, fetchVars, retryVars, auxVars>>

\* one collection download with a progress sink: the concurrent one or the
\* sequential one
ProgressStart ==
    /\ \/ /\ ConcInit
          /\ Len(videos) <= MaxSinkVideos
          /\ max_workers <= MaxSinkWorkers
          /\ SeqIdle
       \/ /\ SeqInit
          /\ ConcIdle
    /\ SinkInit
    /\ SelIdle /\ FetchIdle /\ RetryIdle /\ AuxIdle

SpecProgress == ProgressStart /\ [][ProgressNext]_vars

(***************************************************************************)
(* Properties of format selection (SpecSelect)                             *)
(***************************************************************************)
IsCombined(f)  == f.is_audio /\ f.is_video
IsAudioOnly(f) == f.is_audio /\ ~f.is_video
IsVideoOnly(f) == f.is_video /\ ~f.is_audio

Candidates   == {formats[i] : i \in 1..Len(formats)}
CombinedSet  == {f \in Candidates : IsCombined(f)}
Selected     == formats[selected]
WasSelected  == selStage = "selected"

\* (h1, b1) <= (h2, b2) lexicographically
LexLeq(h1, b1, h2, b2) == h1 < h2 \/ (h1 = h2 /\ b1 <= b2)

\* the N of a policy "<N>p" (0 when the policy is not of that form)
PolicyN == QualityHeight(quality)

\* C6: for the audio-only policy "audio" over a candidate list that holds
\* audio-only descriptors, the selected descriptor is the audio-only
\* descriptor with the greatest audio bitrate, never one carrying video.
C6_AudioPolicySelectsAudioOnly ==
    (WasSelected /\ quality = S_audio /\ \E f \in Candidates : IsAudioOnly(f))
        => /\ selected # 0
           /\ IsAudioOnly(Selected)
           /\ \A f \in Candidates :
                 IsAudioOnly(f) => f.audio_bitrate <= Selected.audio_bitrate

\* C7 as stated: for policy "<N>p", when some video-capable descriptor
\* (combined or video-only) is below N and none is exactly N, the selected
\* descriptor is the tallest video-capable one below N, never one above N.
C7_ClosestBelowAnyVideo ==
    (/\ WasSelected
     /\ PolicyN > 0
     /\ \E f \in Candidates : f.is_video /\ f.height < PolicyN
     /\ \A f \in Candidates : f.is_video => f.height # PolicyN)
        => /\ selected # 0
           /\ Selected.height < PolicyN
           /\ \A f \in Candidates :
                 (f.is_video /\ f.height < PolicyN) => f.height <= Selected.height

\* C7 amended: for policy "<N>p", when some combined descriptor is below N
\* and no combined descriptor is exactly N, the selected descriptor is a
\* combined one with the greatest height below N among the combined
\* descriptors, never one above N.
C7_ClosestBelowCombined ==
    (/\ WasSelected
     /\ PolicyN > 0
     /\ \E f \in CombinedSet : f.height < PolicyN
     /\ \A f \in CombinedSet : f.height # PolicyN)
        => /\ selected # 0
           /\ IsCombined(Selected)
           /\ Selected.height < PolicyN
           /\ \A f \in CombinedSet :
                 f.height < PolicyN => f.height <= Selected.height

\* 720p over a list holding combined 360p and 1080p and nothing at 720
C7_Witness ==
    /\ WasSelected
    /\ quality = S_720p
    /\ \E f \in CombinedSet : f.height = 360
    /\ \E f \in CombinedSet : f.height = 1080
    /\ \A f \in Candidates : f.height # 720
    /\ selected # 0
    /\ Selected.height = 360

\* C8: for policy "<N>p", N > 0, over a list with a combined descriptor:
\* a combined descriptor of height N with the greatest video bitrate among
\* those of height N; else a combined one with the greatest height below N;
\* else the descriptor that "best" returns.
C8_ExactHeightChain ==
    (WasSelected /\ PolicyN > 0 /\ CombinedSet # {})
        => /\ selected # 0
           /\ IsCombined(Selected)
           /\ IF \E f \in CombinedSet : f.height = PolicyN
              THEN /\ Selected.height = PolicyN
                   /\ \A f \in CombinedSet :
                         f.height = PolicyN
                            => f.video_bitrate <= Selected.video_bitrate
              ELSE IF \E f \in CombinedSet : f.height < PolicyN
              THEN /\ Selected.height < PolicyN
                   /\ \A f \in CombinedSet :
                         f.height < PolicyN => f.height <= Selected.height
              ELSE selected = SelectFormat(formats, S_best)

\* 720p over two combined 720p descriptors, the lower bitrate listed first
C8_Witness ==
    /\ WasSelected
    /\ quality = S_720p
    /\ Len(formats) >= 2
    /\ formats[1].itag = 45
    /\ formats[2].itag = 22
    /\ Selected.itag = 22

\* C9: over a list with a combined descriptor, "best" returns a combined
\* descriptor with lexicographically maximal (height, video_bitrate) among
\* the combined ones and "worst" one with the minimal pair.
C9_BestWorstCombined ==
    (WasSelected /\ CombinedSet # {})
        => /\ quality = S_best =>
                /\ selected # 0
                /\ IsCombined(Selected)
                /\ \A f \in CombinedSet :
                      LexLeq(f.height, f.video_bitrate,
                             Selected.height, Selected.video_bitrate)
           /\ quality = S_worst =>
                /\ selected # 0
                /\ IsCombined(Selected)
                /\ \A f \in CombinedSet :
                      LexLeq(Selected.height, Selected.video_bitrate,
                             f.height, f.video_bitrate)

\* "best" over two combined 720p descriptors and a taller video-only one
C9_Witness ==
    /\ WasSelected
    /\ quality = S_best
    /\ \E f \in Candidates : IsVideoOnly(f) /\ f.height = 1080
    /\ \E f \in CombinedSet : f.itag = 45
    /\ \A f \in CombinedSet : f.height <= 720
    /\ Selected.itag = 22

\* C10: with no combined descriptor, every policy returns the video-only
\* descriptor with the greatest height when a video-capable descriptor
\* exists and None otherwise; never an audio-only descriptor nor one with
\* neither medium.
C10_FallbackVideoOnly ==
    (WasSelected /\ CombinedSet = {})
        => IF \E f \in Candidates : f.is_video
           THEN /\ selected # 0
                /\ IsVideoOnly(Selected)
                /\ \A f \in Candidates : f.is_video => f.height <= Selected.height
           ELSE selected = 0

\* a height policy over video-only and audio-only descriptors only
C10_Witness ==
    /\ WasSelected
    /\ quality = S_720p
    /\ CombinedSet = {}
    /\ \E f \in Candidates : IsAudioOnly(f)
    /\ \E f \in Candidates : IsVideoOnly(f) /\ f.height = 480
    /\ selected # 0
    /\ Selected.height = 1080

(***************************************************************************)
(* Properties of the concurrent collection flow (Spec)                     *)
(***************************************************************************)
NumVideos == Len(videos)

FailingItems == {i \in 1..NumVideos : videos[i].result # "ok"}

\* number of records of a sequence that carry index i
CountIndex(seq, i) == Cardinality({k \in 1..Len(seq) : seq[k].index = i})

\* number of entries of the success list that are the file of item i
CountFile(seq, i) ==
    Cardinality({k \in 1..Len(seq) : seq[k] = OutputFile(videos[i].url)})

\* outcome records of task i: queued results and aggregated entries
OutcomeCount(i) ==
    CountIndex(result_queue, i) + CountIndex(errors, i)
        + CountFile(downloaded_files, i)

ErrorIndices == {errors[k].index : k \in 1..Len(errors)}

\* C1: no task is ever recorded twice; from the moment the join on the
\* task queue is passed (so before aggregation starts) every task index
\* 1..N has exactly one outcome record; and when download_playlist has
\* returned, len(successes) + len(failures) = N.
C1_ExactlyOneOutcomePerTask ==
    /\ \A i \in 1..NumVideos : OutcomeCount(i) <= 1
    /\ mainPc \in {"stop_workers", "aggregate", "returned"}
          => \A i \in 1..NumVideos : OutcomeCount(i) = 1
    /\ mainPc \in {"stop_workers"}
          => Len(result_queue) = NumVideos
    /\ mainPc = "returned"
          => /\ Len(downloaded_files) + Len(errors) = NumVideos
             /\ Len(result_queue) = 0
             /\ \A i \in 1..NumVideos :
                   (i \in ErrorIndices) # (CountFile(downloaded_files, i) = 1)

\* three tasks, one of them failing, two workers, the call has returned
C1_Witness ==
    /\ mainPc = "returned"
    /\ NumVideos = 3
    /\ max_workers = 2
    /\ Len(errors) = 1
    /\ Len(downloaded_files) = 2

\* C2: when the single-item flow of a task raises, the worker holding it
\* puts exactly one failure record for that task and goes on to mark the
\* task done and poll again, leaving the queued tasks untouched; a worker
\* leaves its loop only at the loop test with the stop signal set; and
\* when the call returns every task has its own outcome.
C2_Step ==
    /\ \A w \in WorkerIds :
          /\ (/\ wpc[w] = "download"
              /\ wpc'[w] # "download"
              /\ videos[wtask[w].url].result # "ok")
                => /\ wpc'[w] = "task_done"
                   /\ Len(result_queue') = Len(result_queue) + 1
                   /\ result_queue'[Len(result_queue')].success = FALSE
                   /\ result_queue'[Len(result_queue')].index = wtask[w].index
                   /\ result_queue'[Len(result_queue')].error
                         = videos[wtask[w].url].result
                   /\ task_queue' = task_queue
          /\ (wpc[w] = "task_done" /\ wpc'[w] # "task_done") => wpc'[w] = "loop"
          /\ (wpc[w] # "exited" /\ wpc'[w] = "exited")
                => (wpc[w] = "loop" /\ ~running)
    /\ mainPc' = "returned"
          => \A i \in 1..NumVideos :
                IF i \in FailingItems
                THEN CountIndex(errors', i) = 1
                ELSE CountFile(downloaded_files', i) = 1

C2_FailureIsolated == [][C2_Step]_vars

\* one worker: the first task failed, the same worker went on to download
\* the second
C2_Witness ==
    /\ max_workers = 1
    /\ NumVideos >= 2
    /\ videos[1].result # "ok"
    /\ videos[2].result = "ok"
    /\ CountIndex(result_queue, 1) = 1
    /\ CountIndex(result_queue, 2) = 1
    /\ wpc[1] = "task_done"
    /\ wtask[1].index = 2

\* C3: once the metadata fetch has returned a non-empty item list the call
\* never enters its except clause and never raises; it returns, and the
\* failures list then holds exactly the failing items with their errors.
C3_Step ==
    /\ mainPc \notin {"extract", "except", "raised"}
          => mainPc' \notin {"except", "raised"}
    /\ mainPc' = "returned"
          => /\ raised' = NoError
             /\ ErrorIndices' = FailingItems
             /\ \A k \in 1..Len(errors') :
                   errors'[k].error = videos[errors'[k].index].result

Classification ==
    [i \in 1..NumVideos |->
        IF i \in ErrorIndices THEN "failure"
        ELSE IF CountFile(downloaded_files, i) > 0 THEN "success"
        ELSE "none"]

\* C5: the classification of every item in the returned pair is the fixed
\* result of its single-item flow, for every number of workers (so a run
\* with one worker and a run with four classify every item identically).
C5_ClassificationIndependentOfWorkers ==
    mainPc = "returned"
        => Classification =
              [i \in 1..NumVideos |->
                  IF videos[i].result = "ok" THEN "success" ELSE "failure"]

\* four workers, outcomes completed out of index order
C5_Witness ==
    /\ mainPc = "returned"
    /\ max_workers = 4
    /\ NumVideos = 3
    /\ Len(errors) = 2
    /\ errors[1].index = 3
    /\ errors[2].index = 1

(***************************************************************************)
(* Properties of the single download (SpecFetch)                           *)
(***************************************************************************)
\* C4: when download_video raises after one or more chunks were written to
\* the destination file (the transport, the write or the progress callback
\* failed), the destination path does not exist at the moment it raises.
C4_NoPartialFileAfterFailure ==
    (fpc = "raised" /\ bytes_downloaded > 0)
        => /\ cause \in {"RequestException", "IOError", "Exception"}
           /\ ~FileExists(disk, output_file)

\* the transport failed after a chunk was written and before the body ended
C4_Witness ==
    /\ fpc = "raised"
    /\ cause = "RequestException"
    /\ bytes_downloaded > 0
    /\ chunk_index < Len(response.chunks)
    /\ opens = 1
    /\ ~FileExists(disk, output_file)

(***************************************************************************)
(* Properties of retry_on_rate_limit (SpecRetry)                           *)
(***************************************************************************)
RateLimited(i) == attempts[i] = "RateLimitError"

Succeeded(i) == attempts[i] \notin ExceptionClasses

AllRateLimited == \A i \in 1..Len(attempts) : RateLimited(i)

StrictlyIncreasing(s) == \A i \in 1..(Len(s) - 1) : s[i + 1] > s[i]

\* C11: when the wrapped function raises RateLimitError k times and then
\* succeeds, the wrapper returns that value after exactly k sleeps, the
\* first of RATE_LIMIT_INITIAL_DELAY seconds and each later one strictly
\* longer than the one before it.
C11_ReturnsAfterIncreasingSleeps ==
    \A k \in 0..MAX_RATE_LIMIT_RETRIES :
        ( /\ Len(attempts) = k + 1
          /\ \A i \in 1..k : RateLimited(i)
          /\ Succeeded(k + 1) )
        => /\ rpc \in {"returned", "done"}
           /\ rvalue = attempts[k + 1]
           /\ rerror = NoError
           /\ Len(sleeps) = k
           /\ k >= 1 => sleeps[1] = Seconds(RATE_LIMIT_INITIAL_DELAY)
           /\ StrictlyIncreasing(sleeps)

C11_Witness ==
    /\ rpc = "returned"
    /\ rvalue = "items"
    /\ Len(attempts) = MAX_RATE_LIMIT_RETRIES
    /\ \A i \in 1..(MAX_RATE_LIMIT_RETRIES - 1) : RateLimited(i)
    /\ Len(sleeps) = MAX_RATE_LIMIT_RETRIES - 1

\* C12: when every attempt is rate-limited the wrapped function is called
\* exactly MAX_RATE_LIMIT_RETRIES + 1 times with MAX_RATE_LIMIT_RETRIES
\* sleeps in between and the wrapper re-raises RateLimitError; whatever the
\* function does it is never called more than MAX_RATE_LIMIT_RETRIES + 1
\* times.
C12_CapThenReraise ==
    /\ Len(attempts) <= MAX_RATE_LIMIT_RETRIES + 1
    /\ Len(attempts) - 1 <= Len(sleeps) /\ Len(sleeps) <= Len(attempts)
    /\ (AllRateLimited /\ Len(attempts) = MAX_RATE_LIMIT_RETRIES + 1)
          => /\ rpc \in {"raised", "done"}
             /\ rerror = "RateLimitError"
             /\ rvalue = NoValue
             /\ Len(sleeps) = MAX_RATE_LIMIT_RETRIES
    /\ (AllRateLimited /\ rpc \in {"raised", "done"})
          => Len(attempts) = MAX_RATE_LIMIT_RETRIES + 1

C12_Witness ==
    /\ rpc = "raised"
    /\ rerror = "RateLimitError"
    /\ AllRateLimited
    /\ Len(attempts) = MAX_RATE_LIMIT_RETRIES + 1
    /\ Len(sleeps) = MAX_RATE_LIMIT_RETRIES

\* C13: an error of the wrapped function other than RateLimitError, on the
\* first attempt or after rate-limited ones, is raised by the wrapper at
\* once: that attempt is the last one and no sleep follows it.
C13_OtherErrorPropagatesAtOnce ==
    \A i \in 1..Len(attempts) :
        (~Succeeded(i) /\ ~RateLimited(i))
        => /\ i = Len(attempts)
           /\ rpc \in {"raised", "done"}
           /\ rerror = attempts[i]
           /\ Len(sleeps) = i - 1

C13_Witness ==
    /\ rpc = "raised"
    /\ rerror = "ExtractionError"
    /\ Len(attempts) = 3
    /\ RateLimited(1) /\ RateLimited(2)
    /\ Len(sleeps) = 2

\* C14: when rate limiting outlasts the retry cap, the exception that
\* reaches the caller of extract_video_info is an ExtractionError or an
\* instance of a subclass of it.
C14_RateLimitSurfacesAsExtractionError ==
    (rpc = "done" /\ rerror = "RateLimitError")
        => IsInstance(xerror, "ExtractionError")

(***************************************************************************)
(* Properties of the progress calls of one download (SpecFetch)            *)
(***************************************************************************)
RECURSIVE NonEmpty(_)
NonEmpty(s) ==
    IF Len(s) = 0 THEN <<>>
    ELSE IF s[Len(s)] = 0 THEN NonEmpty(DropLast(s))
    ELSE Append(NonEmpty(DropLast(s)), s[Len(s)])

\* the chunks written to the file so far, in order
WrittenChunks == NonEmpty(SubSeq(response.chunks, 1, chunk_index))

\* the bytes the file holds after its first j chunks
BytesAfter(j) == SumSeq(SubSeq(WrittenChunks, 1, j))

TotalKnown == content_length > 0

\* C16: with a progress callback, call j is made after chunk j is written
\* and before chunk j+1 is, with the cumulative bytes written; a download
\* that returns with a known total has made exactly one more call, with
\* bytes equal to the total, and that call is the last one.
C16_ProgressAfterEveryChunk ==
    has_callback =>
        /\ fpc = "callback"
              => /\ Len(progress) = Len(WrittenChunks) - 1
                 /\ disk[output_file] = BytesAfter(Len(WrittenChunks))
        /\ fpc \in {"iterate", "final"}
              => /\ Len(progress) = Len(WrittenChunks)
                 /\ disk[output_file] = BytesAfter(Len(WrittenChunks))
        /\ fpc \in {"callback", "iterate", "final"}
              => \A j \in 1..Len(progress) :
                    progress[j] = <<BytesAfter(j), content_length>>
        /\ fpc = "returned"
              => /\ Len(progress) =
                        Len(WrittenChunks) + (IF TotalKnown THEN 1 ELSE 0)
                 /\ \A j \in 1..Len(WrittenChunks) :
                       progress[j] = <<BytesAfter(j), content_length>>
                 /\ TotalKnown
                       => progress[Len(progress)] =
                             <<content_length, content_length>>

C16_Witness ==
    /\ fpc = "returned"
    /\ has_callback
    /\ TotalKnown
    /\ Len(WrittenChunks) = MaxChunks
    /\ Len(progress) = MaxChunks + 1

\* C17: when the content length of the selected descriptor is None or 0,
\* download_video still issues the stream request, and every total handed
\* to the progress callback is the content length the response declares,
\* when it declares one.
C17_UnknownLengthStillFetches ==
    (selected # 0 /\ formats[selected].content_length \in {NoneLength, 0})
        => /\ fpc \in {"raised", "returned"} => requests >= 1
           /\ response.declared # NoneLength
                 => \A j \in 1..Len(progress) :
                       progress[j][2] = response.declared

ExtractionFailed ==
    ferror \in {"VideoUnavailableError", "ExtractionError", "RateLimitError"}

\* C18: when _select_format returns None, download_video raises
\* DownloadError and up to then no directory is created, no destination
\* file is opened or changed and no stream request is issued.
C18_NoEffectBeforeNoSuitableFormat ==
    SelectFormat(formats, quality) = 0
        => /\ fpc \in {"extract", "select", "raised"}
           /\ (fpc = "raised" /\ ~ExtractionFailed)
                 => selected = 0 /\ ferror = "DownloadError"
           /\ dirs = {}
           /\ output_file = NoPath
           /\ opens = 0
           /\ requests = 0
           /\ \A q \in DOMAIN disk : disk[q] = PriorBytes

C18_Witness ==
    /\ fpc = "raised"
    /\ ferror = "DownloadError"
    /\ selected = 0
    /\ Len(formats) > 0
    /\ disk # <<>>
    /\ dirs = {}

(***************************************************************************)
(* Properties of the start of the worker pool (Spec)                       *)
(***************************************************************************)
NoWorkerStarted ==
    /\ \A w \in WorkerIds : wpc[w] = "unstarted"
    /\ spawned = 0
    /\ workers = <<>>
    /\ ~running

NothingEnqueued ==
    /\ enqueued = 0
    /\ task_queue = <<>>
    /\ unfinished_tasks = 0

\* C19: with an empty item list download_playlist raises
\* PlaylistUnavailableError (unless the metadata fetch itself raised), and
\* in no state of the call has a worker been started or a task been put on
\* the queue.
C19_EmptyPlaylistStartsNothing ==
    Len(videos) = 0
        => /\ mainPc \in {"extract", "except", "raised"}
           /\ mainPc \in {"except", "raised"}
                 => raised \in {"PlaylistUnavailableError", "ExtractionError"}
           /\ NoWorkerStarted
           /\ NothingEnqueued

C19_Witness ==
    /\ Len(videos) = 0
    /\ mainPc = "raised"
    /\ raised = "PlaylistUnavailableError"

\* C20 as stated: a worker completes a poll of the queue only when all N
\* tasks have been enqueued.
C20_AllEnqueuedBeforeFirstPoll ==
    [][ \A w \in WorkerIds :
           (wpc[w] = "get" /\ wpc'[w] # "get") => enqueued = Len(videos) ]_vars

\* C20 as amended: a worker leaves its loop only after the stop signal,
\* which download_playlist gives after the join, when all N tasks have been
\* enqueued and processed, or in its except clause.
C20_NoWorkerExitsBeforeAllTasksDone ==
    \A w \in WorkerIds :
        wpc[w] = "exited"
            => /\ ~running
               /\ \/ /\ mainPc \in {"aggregate", "returned"}
                     /\ enqueued = Len(videos)
                     /\ unfinished_tasks = 0
                     /\ task_queue = <<>>
                  \/ mainPc = "raised"

\* the workers have left their loops at the end of a call with several tasks
C20_Witness ==
    /\ \E w \in WorkerIds : wpc[w] = "exited"
    /\ mainPc = "returned"
    /\ Len(videos) >= 2

\* a worker has taken a task while only part of the tasks was enqueued
PartialQueueObserved ==
    \E w \in WorkerIds :
        /\ wpc[w] = "download"
        /\ 0 < enqueued /\ enqueued < Len(videos)

(***************************************************************************)
(* Properties of the progress sink (SpecProgress)                          *)
(***************************************************************************)
\* the number of items of the collection being downloaded
ItemTotal == Len(videos) + Len(svideos)

ColonAt(q) ==
    IF \E i \in 1..Len(q) : q[i] = ":"
    THEN CHOOSE i \in 1..Len(q) : q[i] = ":" /\ \A j \in 1..(i - 1) : q[j] # ":"
    ELSE 0

IsCompound(q) == ColonAt(q) > 0

\* the "<base>" of "<base>:<container>"
BaseOfQuality(q) == SubSeq(q, 1, ColonAt(q) - 1)

\* the height of the descriptor a selection returned, -1 for None
HeightOf(fs, i) == IF i = 0 THEN -1 ELSE fs[i].height

\* C26: for "<base>:<container>" with base "best", "worst" or "<N>p", the
\* descriptor selected has the height of the descriptor selected for
\* <base> alone over the same candidate list.
C26_CompoundKeepsBaseHeight ==
    ( /\ selStage = "selected"
      /\ IsCompound(quality)
      /\ BaseOfQuality(quality) \in QualityArgs )
        => HeightOf(formats, selected)
             = HeightOf(formats, SelectFormat(formats, BaseOfQuality(quality)))

(***************************************************************************)
(* Properties of the files a failed download leaves (SpecFetch)            *)
(***************************************************************************)
\* C28: when download_video fails before it has opened the destination,
\* the step that raises leaves every file on disk as it was, so a file an
\* earlier download left at the destination path is still there with its
\* content.
C28_FailedCallKeepsPriorFile ==
    [][ (fpc' = "raised" /\ opens = 0) => disk' = disk ]_vars

(***************************************************************************)
(* Properties of the sequential download_playlist (SpecProgress)           *)
(***************************************************************************)
\* C27: once the item list is fetched, download_playlist ends only after
\* every item has been attempted, whatever exception an item raised.
C27_EveryItemAttempted ==
    (spc \in {"returned", "raised"} /\ si >= 1) => si = Len(svideos)

(***************************************************************************)
(* Properties of the size of the worker pool (Spec)                        *)
(***************************************************************************)
Started == {w \in WorkerIds : wpc[w] # "unstarted"}

\* the workers inside a single-item download or about to mark it done
Holding == {w \in WorkerIds : wpc[w] \in {"download", "task_done"}}

InQueue(task) == \E k \in 1..Len(task_queue) : task_queue[k] = task

\* C24: a call starts exactly max_workers workers, at most max_workers
\* single-item downloads are in progress at any moment, and a task is held
\* by at most one worker (and is no longer in the queue).
C24_PoolSizeAndExclusiveTasks ==
    /\ Cardinality(Started) = spawned
    /\ spawned <= max_workers
    /\ mainPc \in {"enqueue", "join", "stop_workers", "aggregate", "returned"}
          => Cardinality(Started) = max_workers
    /\ Cardinality(Holding) <= max_workers
    /\ \A w \in Holding :
          /\ wtask[w] # NoTask
          /\ ~InQueue(wtask[w])
          /\ \A v \in Holding : v # w => wtask[v] # wtask[w]

C24_Witness ==
    /\ max_workers >= 2
    /\ Cardinality({w \in WorkerIds : wpc[w] = "download"}) = max_workers
    /\ Len(task_queue) > 0

(***************************************************************************)
(* Termination of the concurrent download (SpecLive)                       *)
(***************************************************************************)
\* C30: with fair scheduling, a call that has reached the start of its
\* workers eventually returns, and a worker that holds a task eventually
\* marks it done.
C30_EventuallyReturns ==
    /\ (mainPc = "start_workers") ~> (mainPc = "returned")
    /\ \A w \in WorkerIds :
          (wpc[w] = "download") ~> (wpc[w] = "loop" /\ wtask[w] = NoTask)

C30_Witness ==
    /\ mainPc = "returned"
    /\ Len(videos) = MaxLiveVideos
    /\ Len(errors) >= 1
    /\ Len(downloaded_files) >= 1
    /\ unfinished_tasks = 0

(***************************************************************************)
(* Properties of the call sites (SpecCallers)                              *)
(***************************************************************************)
\* C23: every call site constructs the ConcurrentDownloader with a
\* max_workers between 1 and 16, so that the pool is started with at least
\* one and at most sixteen workers.
C23_CallersClampMaxWorkers ==
    /\ cstage \in {"constructed", "started"}
          => WorkerFloor <= max_workers /\ max_workers <= WorkerCap
    /\ cstage = "started"
          => WorkerFloor <= spawned /\ spawned <= WorkerCap

(***************************************************************************)
(* Properties of the destination files of concurrent tasks (SpecShare)     *)
(***************************************************************************)
AllTasksEnded == \A t \in ShareTaskIds : tpc[t] \in {"success", "failed"}

\* C21: two tasks of one call never open, write or remove the same
\* destination path, and two workers never have the same file open.
C21_TasksOwnTheirPaths ==
    \A t, u \in ShareTaskIds :
        (t # u /\ tops[t] # {} /\ tops[u] # {}) => DestPath(t) # DestPath(u)

\* C29: when every task has ended, each path recorded as a success names
\* a file that exists and holds the whole body.
C29_SuccessesExistComplete ==
    AllTasksEnded
        => \A k \in 1..Len(psuccess) :
              /\ FileExists(pdisk, psuccess[k])
              /\ pdisk[psuccess[k]] = MaxChunks

(***************************************************************************)
(* Properties of a reused ConcurrentDownloader (SpecReuse)                 *)
(***************************************************************************)
TasksOf(c) == {CallTask(c, i) : i \in 1..citems[c]}

Elements(q) == {q[k] : k \in 1..Len(q)}

Returned(c) == cpc[c] = "returned"

\* C22: the lists a call returns hold the outcomes of exactly its own
\* tasks, and a worker started by one call never holds a task of another.
C22_CallsShareNothing ==
    /\ \A c \in CallIds :
          Returned(c) => Elements(cfiles[c]) \cup Elements(cerrs[c]) = TasksOf(c)
    /\ \A t \in ThreadIds :
          thr[t].task # NoCallTask => thr[t].task.call = thr[t].by

\* C25: when a call has returned the stop signal is set for its workers:
\* none of them dequeues a further task, and none is still in its loop
\* when a later call starts its workers.
C25_WorkersOfEndedCallStop ==
    \A t \in ThreadIds :
        (thr[t].by # 0 /\ Returned(thr[t].by))
            => /\ thr[t].pc \notin {"download", "task_done"}
               /\ \A c \in CallIds :
                     (c > thr[t].by /\ cpc[c] # "not_called")
                         => thr[t].pc = "exited"
====
